---- MODULE Spec2Model ----
(***************************************************************************)
(* Model of the agent memory subsystem of tuanle96/agentos-ecosystem:      *)
(*   - OptimizedMemoryEngine  (optimization/memory_optimizer.py): the      *)
(*     three-tier cache (l1_cache, l2_cache, Redis) and its janitor;       *)
(*   - MemoryConsolidationEngine (memory/consolidation_engine.py);         *)
(*   - UniversalMemory.store_memory (memory/universal_memory.py);          *)
(*   - Mem0MemoryEngine.store_memory (memory/mem0_memory_engine.py).       *)
(* Time is a logical clock counted in ticks; TicksPerMs ticks make one     *)
(* millisecond, so two calls can fall in the same millisecond at           *)
(* different instants.                                                     *)
(***************************************************************************)
EXTENDS Integers, Sequences, FiniteSets, TLC

VARIABLES
    l1_cache,       \* OrderedDict id -> memory_obj, as the sequence of its values (head = next evicted)
    l2_cache,       \* dict id -> bytes in insertion order, as a sequence of [id, data]
    redis_client,   \* TRUE when _setup_redis kept a client, FALSE when it set None
    redis_mem,      \* Redis keys memory:{id}      : id -> [data, exp]
    redis_flag,     \* Redis keys compressed:{id}  : id -> [exp]
    cache_stats,    \* the counters of self.cache_stats
    now,            \* time.time(), in ticks
    access_order,   \* history: ids resident in l1_cache, least recently accessed first
    store_log,      \* history: the ids returned so far, in order, while only store_memory has run
    only_stores,    \* history: TRUE while nothing but store_memory has run
    pending,        \* history: the record last stored by the observed caller and not yet read back
    failed_calls,   \* history: number of Redis calls that raised so far
    last_op,        \* history: what the last completed call did and returned
    codec_pc,       \* compression round trip: "start", "compressed" or "done"
    codec_in,       \* the memory object handed to _compress_memory
    codec_data,     \* the bytes _compress_memory returned
    codec_out,      \* the object _decompress_memory returned
    api_episodic,   \* the episodic memories the memory API holds, in the order it lists them
    api_semantic,   \* the semantic memories POSTed to the API
    api_patches,    \* the importance PATCHes sent to the API
    api_records,    \* the consolidation records POSTed to the API
    cons_runs,      \* consolidation runs made
    cons_adds,      \* episodic memories added since the start
    cons_last,      \* history: what the last consolidation run did and returned
    cons_task,      \* per overlapping consolidation run: where it is and what it holds
    um_redis,       \* UniversalMemory: the Redis keys it has set, key -> entry
    um_posts,       \* UniversalMemory: the bodies POSTed to the memory API
    um_stats,       \* UniversalMemory: stats["memories_stored"]
    um_calls,       \* UniversalMemory: store_memory calls made
    um_last,        \* history: what the last UniversalMemory.store_memory did
    m0_memory,      \* Mem0MemoryEngine: TRUE when self.memory is a mem0 Memory, FALSE for the fallback
    m0_redis,       \* Mem0MemoryEngine: TRUE when self.redis is a client, FALSE when None
    m0_pc,          \* Mem0MemoryEngine: where each store_memory coroutine is
    m0_id,          \* Mem0MemoryEngine: memory_id of each coroutine
    m0_tmp,         \* Mem0MemoryEngine: the counter value each coroutine has read
    m0_running,     \* the coroutine the event loop is running, 0 between coroutines
    m0_stats,       \* Mem0MemoryEngine: stats["memories_stored"]
    m0_cache,       \* Mem0MemoryEngine: the Redis keys set, as a set
    m0_backend,     \* the memories the mem0 backend has added
    m0_hist,        \* history: per coroutine, what it saw when it started and ended
    m0_values,      \* Mem0MemoryEngine: the value under each fallback_memory:{id} key
    m0_last,        \* history: what the last get, delete or fallback search did
    m0_search,      \* Mem0MemoryEngine: the value and expiry under each search:* key
    m0_retrieves,   \* retrieve_memories calls made
    lock_owner,     \* OptimizedMemoryEngine.cache_lock: the thread that holds it, 0 when free
    lock_depth,     \* cache_lock is an RLock: how many times its owner has acquired it
    th_prog,        \* per thread: the steps its current call has still to take
    th_call,        \* per thread: its current call, arguments, locals and outcome
    th_count        \* calls begun by the threads

engine_vars == <<l1_cache, l2_cache, redis_client, redis_mem, redis_flag,
                 cache_stats, now, access_order, store_log, only_stores,
                 pending, failed_calls, last_op>>

codec_vars == <<codec_pc, codec_in, codec_data, codec_out>>

cons_vars == <<api_episodic, api_semantic, api_patches, api_records,
               cons_runs, cons_adds, cons_last, cons_task>>

um_vars == <<um_redis, um_posts, um_stats, um_calls, um_last>>

m0_vars == <<m0_memory, m0_redis, m0_pc, m0_id, m0_tmp, m0_running, m0_stats,
             m0_cache, m0_backend, m0_hist, m0_values, m0_last, m0_search, m0_retrieves>>

facade_vars == <<um_vars, m0_vars>>

thread_vars == <<lock_owner, lock_depth, th_prog, th_call, th_count>>

vars == <<engine_vars, codec_vars, cons_vars, facade_vars, thread_vars>>

(***************************************************************************)
(* Bounds of the model and scaled configuration                            *)
(***************************************************************************)
MaxStores == 3
MaxRetrieves == 1
MaxTime == 4
MaxFailedCalls == 1

TicksPerMs == 2
StartTime == 2

\* MemoryConfig, scaled down
local_cache_size == 2
compression_threshold == 2
cache_ttl_seconds == 1

Agents == {"a1", "a2"}
\* the caller whose reads of its own writes are observed
Observed == "a1"

(***************************************************************************)
(* Python values that can sit in a metadata dict, and what                 *)
(* json.dumps(..., default=str) followed by json.loads makes of them       *)
(***************************************************************************)
PyVal(t, v) == [t |-> t, v |-> v]

\* json.dumps: a tuple is written as an array, an object json does not know
\* is written as str(obj) (default=str); str, int and list are kept.
JsonValue(val) ==
    CASE val.t = "tuple" -> PyVal("list", val.v)
      [] val.t = "obj"   -> PyVal("str", val.v)
      [] OTHER           -> val

\* json.dumps writes every dict key as a string.
JsonKey(key) == PyVal("str", key.v)

JsonItems(items) == {[k |-> JsonKey(it.k), v |-> JsonValue(it.v)] : it \in items}

MetaNone == [none |-> TRUE, items |-> {}]
MetaTags == [none |-> FALSE,
             items |-> {[k |-> PyVal("str", "tags"), v |-> PyVal("tuple", "x,y")]}]

\* the store_memory calls of the model: (content as its words, metadata, agent_id)
StoreInputs ==
    {[content |-> <<"x">>, metadata |-> MetaNone, agent |-> "a1"],
     [content |-> <<"x">>, metadata |-> MetaNone, agent |-> "a2"],
     [content |-> <<"x", "y", "z">>, metadata |-> MetaTags, agent |-> "a1"],
     [content |-> <<"y", "z", "w">>, metadata |-> MetaNone, agent |-> "a2"]}

(***************************************************************************)
(* Memory objects and ids                                                  *)
(***************************************************************************)
NoTime == -1

\* hashlib.md5(content.encode()).hexdigest()[:8]; the contents of the model
\* have pairwise distinct digests.
ContentHash(content) == <<"md5", content>>

\* md5 of str(sorted((metadata or {}).items())): None and {} hash alike.
MetadataHash(metadata) == <<"md5", metadata.items>>

generate_memory_id(content, metadata, t) ==
    [ch |-> ContentHash(content), mh |-> MetadataHash(metadata), ms |-> t \div TicksPerMs]

NoId == [ch |-> <<"md5", <<>>>>, mh |-> <<"md5", {}>>, ms |-> NoTime]

MemoryObj(content, metadata, agent, t) ==
    [id |-> generate_memory_id(content, metadata, t),
     content |-> content,
     metadata |-> metadata.items,
     agent_id |-> agent,
     timestamp |-> t,
     access_count |-> 0,
     last_accessed |-> NoTime]

NoObj == [id |-> NoId, content |-> <<>>, metadata |-> {}, agent_id |-> "",
          timestamp |-> NoTime, access_count |-> 0, last_accessed |-> NoTime]

\* memory_obj["access_count"] += 1; memory_obj["last_accessed"] = time.time()
update_access_stats(obj, t) ==
    [obj EXCEPT !.access_count = @ + 1, !.last_accessed = t]

(***************************************************************************)
(* Serialisation and compression                                           *)
(***************************************************************************)
\* json.dumps(memory_obj, default=str): the text, given by the value it denotes
json_dumps(obj) == [json |-> [obj EXCEPT !.metadata = JsonItems(@)]]

json_loads(text) == text.json

\* an agent_id one unit longer than the others
LongAgent == "agent-long"

AgentLen(agent) == IF agent = LongAgent THEN 1 ELSE 0

\* len(serialized), in model units above the fixed part of the object
SerializedLen(text) ==
    Len(text.json.content) + Cardinality(text.json.metadata) + AgentLen(text.json.agent_id)

\* zlib.compress / str.encode: a byte string that is or is not a zlib stream
compress_memory(obj) ==
    LET serialized == json_dumps(obj)
    IN  IF SerializedLen(serialized) > compression_threshold
        THEN [z |-> TRUE, body |-> serialized]
        ELSE [z |-> FALSE, body |-> serialized]

\* bytes that are neither a zlib stream nor a json text
Garbage == [z |-> FALSE, body |-> [json |-> [NoObj EXCEPT !.content = <<"\\x00">>]]]

\* zlib.decompress raises zlib.error on a plain string, which is then decoded raw;
\* whatever the raw decode raises is logged and {} returned (NoObj stands for
\* None and for {}, both false in a condition)
decompress_memory(data) ==
    IF data = Garbage THEN NoObj
    ELSE IF data.z THEN json_loads(data.body)
    ELSE json_loads(data.body)

(***************************************************************************)
(* Tier 1 and Tier 2                                                       *)
(***************************************************************************)
RECURSIVE Without(_, _)
Without(seq, id) ==
    IF seq = <<>> THEN <<>>
    ELSE IF Head(seq).id = id THEN Without(Tail(seq), id)
    ELSE <<Head(seq)>> \o Without(Tail(seq), id)

Ids(seq) == {seq[i].id : i \in 1..Len(seq)}

Lookup(seq, id) == seq[CHOOSE i \in 1..Len(seq) : seq[i].id = id]

L1Full(l1) == Len(l1) >= local_cache_size

\* mutant: no eviction when full
store_in_l1_cache_no_evict(l1, obj) == Without(l1, obj.id) \o <<obj>>

\* mutant: the last key (most recently used) is dropped when full
store_in_l1_cache_drop_last(l1, obj) ==
    LET kept == IF L1Full(l1) THEN SubSeq(l1, 1, Len(l1) - 1) ELSE l1
    IN  Without(kept, obj.id) \o <<obj>>

\* _store_in_l1_cache: drop the first key when full, set the key, move it to the end
store_in_l1_cache(l1, obj) ==
    LET kept == IF L1Full(l1) THEN Tail(l1) ELSE l1
    IN  Without(kept, obj.id) \o <<obj>>

\* the key _store_in_l1_cache deletes, NoId when it deletes none
EvictedKey(l1) == IF L1Full(l1) THEN Head(l1).id ELSE NoId

\* self.l2_cache[memory_id] = compressed_obj: a present key keeps its place
SetL2(l2, id, data) ==
    IF id \in Ids(l2)
    THEN [i \in 1..Len(l2) |-> IF l2[i].id = id THEN [id |-> id, data |-> data] ELSE l2[i]]
    ELSE Append(l2, [id |-> id, data |-> data])

\* _get_from_l1_cache moves the key to the end
MoveToEnd(l1, id) == Without(l1, id) \o <<Lookup(l1, id)>>

\* history: the order of last access of the resident ids
Touch(order, id, victim) ==
    LET kept == SelectSeq(order, LAMBDA k : k # victim /\ k # id)
    IN  Append(kept, id)

(***************************************************************************)
(* Redis                                                                   *)
(***************************************************************************)
\* a key is visible until its expiry time
RedisHas(map, id, t) == id \in DOMAIN map /\ t < map[id].exp

SetKey(map, id, val) ==
    [k \in DOMAIN map \cup {id} |-> IF k = id THEN val ELSE map[k]]

(***************************************************************************)
(* The engine after __init__                                               *)
(***************************************************************************)
\* Redis outlives the engine: at construction it holds a record that an earlier
\* engine instance stored (uncompressed, so without a compressed:{id} key)
PriorObj == MemoryObj(<<"w">>, MetaNone, "a2", StartTime)

PriorRedis ==
    SetKey(<<>>, PriorObj.id,
           [data |-> compress_memory(PriorObj), exp |-> StartTime + cache_ttl_seconds])

MaxThreads == 2
Threads == 1..MaxThreads

NoIter == [tier |-> "none", pos |-> 0, n0 |-> 0, dirty |-> FALSE]

NoThreadCall == [op |-> "idle", obj |-> NoObj, id |-> NoId, query |-> "", agent_id |-> "",
                 tier |-> "none", it |-> NoIter, results |-> <<>>, status |-> "none",
                 res1 |-> {}, res2 |-> {}, beside |-> {}, is_compressed |-> FALSE]

\* cache_lock free and no thread inside a method
ThreadsIdle ==
    /\ lock_owner = 0
    /\ lock_depth = 0
    /\ th_prog = [t \in Threads |-> <<>>]
    /\ th_call = [t \in Threads |-> NoThreadCall]
    /\ th_count = 0

NoOp == [op |-> "init", id |-> NoId, ret |-> NoObj, found |-> FALSE, tier |-> "none",
         evicted |-> NoId, lru |-> NoId, n1 |-> 0, n2 |-> 0,
         l1_before |-> <<>>, l2_before |-> <<>>, expected |-> NoObj,
         prev |-> NoObj, raised |-> FALSE, degraded |-> FALSE, failures_reported |-> 0,
         query |-> "", agent_id |-> "", results |-> <<>>]

EngineInit ==
    /\ l1_cache = <<>>
    /\ l2_cache = <<>>
    /\ redis_client \in BOOLEAN
    /\ redis_mem = PriorRedis
    /\ redis_flag = <<>>
    /\ cache_stats = [stores |-> 0, l1_hits |-> 0, l2_hits |-> 0, redis_hits |-> 0, misses |-> 0,
                      searches |-> 0]
    /\ now = StartTime
    /\ access_order = <<>>
    /\ store_log = <<>>
    /\ only_stores = TRUE
    /\ pending = NoObj
    /\ failed_calls = 0
    /\ last_op = NoOp
    /\ ThreadsIdle

\* the round-trip check is not running
CodecIdle ==
    /\ codec_pc = "idle"
    /\ codec_in = NoObj
    /\ codec_data = compress_memory(NoObj)
    /\ codec_out = NoObj

EngineIdle ==
    /\ EngineInit
    /\ redis_client = FALSE

MaxTasks == 3
Tasks == 1..MaxTasks

NoCall == [op |-> "none", raised |-> FALSE, memory_type |-> "", importance |-> 0,
           redis_before |-> <<>>, posts_before |-> <<>>, stats_before |-> 0]

\* UniversalMemory after __init__, no call made
UMIdle ==
    /\ um_redis = <<>>
    /\ um_posts = <<>>
    /\ um_stats = 0
    /\ um_calls = 0
    /\ um_last = NoCall

NoMemId == [kind |-> "none", n |-> 0]

NoScopeOp ==
    [op |-> "none", user_id |-> "", id |-> NoMemId, owners |-> {}, ret |-> FALSE, ids |-> {}]

NoHist == [add_failed |-> FALSE, stats_before |-> 0, cache_before |-> {},
           stats_after |-> 0, cache_after |-> {}]

\* Mem0MemoryEngine after __init__ with a given backend and Redis, no
\* store_memory coroutine finished, started or not
M0Engine(memory, redis, pc) ==
    /\ m0_memory = memory
    /\ m0_redis = redis
    /\ m0_pc = [t \in Tasks |-> pc]
    /\ m0_id = [t \in Tasks |-> NoMemId]
    /\ m0_tmp = [t \in Tasks |-> 0]
    /\ m0_running = 0
    /\ m0_stats = 0
    /\ m0_cache = {}
    /\ m0_backend = <<>>
    /\ m0_hist = [t \in Tasks |-> NoHist]
    /\ m0_values = <<>>
    /\ m0_last = NoScopeOp
    /\ m0_search = <<>>
    /\ m0_retrieves = 0

M0Idle == M0Engine(FALSE, FALSE, "idle")

FacadeIdle == UMIdle /\ M0Idle

Tick ==
    /\ now < MaxTime
    /\ now' = now + 1
    /\ UNCHANGED <<l1_cache, l2_cache, redis_client, redis_mem, redis_flag, cache_stats,
                   access_order, store_log, only_stores, pending, failed_calls, last_op>>
    /\ UNCHANGED <<codec_vars, cons_vars, facade_vars, thread_vars>>

(***************************************************************************)
(* store_memory                                                            *)
(***************************************************************************)
\* how the Redis calls of _store_in_redis can end: every setex may raise
RedisStoreOutcomes(data) ==
    IF ~redis_client THEN {"skip"}
    ELSE {"ok"} \cup (IF failed_calls < MaxFailedCalls
                      THEN {"fail_data"} \cup (IF data.z THEN {"fail_flag"} ELSE {})
                      ELSE {})

\* _store_in_redis: setex memory:{id}, and setex compressed:{id} for a compressed
\* payload; an exception ends the call and is logged
store_in_redis(obj, outcome) ==
    LET data == compress_memory(obj)
        exp == now + cache_ttl_seconds
    IN  /\ redis_mem' = IF outcome \in {"ok", "fail_flag"}
                        THEN SetKey(redis_mem, obj.id, [data |-> data, exp |-> exp])
                        ELSE redis_mem
        /\ redis_flag' = IF outcome = "ok" /\ data.z
                         THEN SetKey(redis_flag, obj.id, [exp |-> exp])
                         ELSE redis_flag
        /\ failed_calls' = IF outcome \in {"fail_data", "fail_flag"}
                           THEN failed_calls + 1 ELSE failed_calls

\* mutant: an exception of setex reaches store_memory
store_in_redis_reraises(outcome) == outcome \in {"fail_data", "fail_flag"}

\* _store_in_redis ends in "except Exception: self.logger.error(...)": whatever
\* setex raises, nothing reaches store_memory
store_in_redis_raises(outcome) == FALSE

\* _store_in_cache: Tier 1, then the compressed copy in Tier 2
store_in_cache_l1(obj) == store_in_l1_cache(l1_cache, obj)
store_in_cache_l2(obj) == SetL2(l2_cache, obj.id, compress_memory(obj))

StoreMemory(content, metadata, agent, outcome) ==
    LET obj == MemoryObj(content, metadata, agent, now)
        victim == EvictedKey(l1_cache)
    IN  /\ outcome \in RedisStoreOutcomes(compress_memory(obj))
        /\ l1_cache' = store_in_cache_l1(obj)
        /\ l2_cache' = store_in_cache_l2(obj)
        /\ store_in_redis(obj, outcome)
        /\ cache_stats' = IF store_in_redis_raises(outcome) THEN cache_stats
                           ELSE [cache_stats EXCEPT !.stores = @ + 1]
        /\ access_order' = Touch(access_order, obj.id, victim)
        /\ store_log' = IF only_stores THEN Append(store_log, obj.id) ELSE <<>>
        /\ pending' = IF agent = Observed THEN obj ELSE pending
        /\ last_op' = [NoOp EXCEPT !.op = "store", !.id = obj.id, !.ret = obj,
                                   !.raised = store_in_redis_raises(outcome),
                                   !.found = ~store_in_redis_raises(outcome),
                                   !.evicted = victim,
                                   !.lru = IF victim = NoId THEN NoId ELSE Head(access_order),
                                   !.degraded = outcome \in {"skip", "fail_data"}]
        /\ UNCHANGED <<redis_client, now, only_stores>>
        /\ UNCHANGED <<codec_vars, cons_vars, facade_vars, thread_vars>>

Store ==
    /\ cache_stats.stores < MaxStores
    /\ \E in \in StoreInputs, outcome \in {"skip", "ok", "fail_data", "fail_flag"} :
           StoreMemory(in.content, in.metadata, in.agent, outcome)

(***************************************************************************)
(* retrieve_memory                                                         *)
(***************************************************************************)
\* an id no store_memory of the model returns
UnknownId == generate_memory_id(<<"x">>, MetaNone, 0)

SeqToSet(seq) == {seq[i] : i \in 1..Len(seq)}

\* the ids a caller asks for: those held by some tier, and one held by none
RetrieveIds == Ids(l1_cache) \cup Ids(l2_cache) \cup DOMAIN redis_mem \cup {UnknownId}

\* how the two get calls of _get_from_redis can end
RedisGetOutcomes == {"ok"} \cup (IF failed_calls < MaxFailedCalls
                                 THEN {"fail_flag", "fail_data"} ELSE {})

\* _get_from_redis: NoObj stands for None. A flagged payload is zlib-decompressed,
\* an unflagged one decoded as text; either raises on the other kind of payload,
\* as does a failed call, and the exception is logged and None returned.
get_from_redis(id, outcome) ==
    LET is_compressed == RedisHas(redis_flag, id, now)
        present == RedisHas(redis_mem, id, now)
        data == redis_mem[id].data
    IN  IF outcome # "ok" \/ ~present THEN NoObj
        ELSE IF is_compressed = data.z THEN json_loads(data.body)
        ELSE NoObj

\* _get_from_l2_cache and "if memory_obj:": the key is there and what
\* _decompress_memory makes of its bytes is not empty
L2Hit(id) == id \in Ids(l2_cache) /\ decompress_memory(Lookup(l2_cache, id).data) # NoObj

\* the tier that answers retrieve_memory(id)
ServingTier(id, outcome) ==
    IF id \in Ids(l1_cache) THEN "l1"
    ELSE IF L2Hit(id) THEN "l2"
    ELSE IF redis_client /\ get_from_redis(id, outcome) # NoObj THEN "redis"
    ELSE "none"

\* the object retrieve_memory finds, before its access statistics are updated
FoundObj(id, outcome) ==
    CASE ServingTier(id, outcome) = "l1" -> Lookup(l1_cache, id)
      [] ServingTier(id, outcome) = "l2" -> decompress_memory(Lookup(l2_cache, id).data)
      [] ServingTier(id, outcome) = "redis" -> get_from_redis(id, outcome)
      [] OTHER -> NoObj

\* mutant: a Tier 2 hit is returned without being stored in Tier 1
L1AfterRetrieve_no_promotion(id, tier, obj) ==
    CASE tier = "l1" -> MoveToEnd(l1_cache, id)
      [] tier = "redis" -> store_in_l1_cache(l1_cache, update_access_stats(obj, now))
      [] OTHER -> l1_cache

\* Tier 1 after retrieve_memory: a hit moves the key to the end and the
\* statistics go to the returned copy; a promoted object is stored and then
\* updated in place.
L1AfterRetrieve(id, tier, obj) ==
    CASE tier = "l1" -> MoveToEnd(l1_cache, id)
      [] tier \in {"l2", "redis"} -> store_in_l1_cache(l1_cache, update_access_stats(obj, now))
      [] OTHER -> l1_cache

\* mutant: a miss is counted as a Tier 1 hit
HitCounter_miss_as_hit(tier) ==
    CASE tier = "l1" -> "l1_hits" [] tier = "l2" -> "l2_hits"
      [] tier = "redis" -> "redis_hits" [] OTHER -> "l1_hits"

HitCounter(tier) ==
    CASE tier = "l1" -> "l1_hits" [] tier = "l2" -> "l2_hits"
      [] tier = "redis" -> "redis_hits" [] OTHER -> "misses"

Retrieves == cache_stats.l1_hits + cache_stats.l2_hits + cache_stats.redis_hits + cache_stats.misses

RetrieveMemory(id, outcome) ==
    LET localHit == id \in Ids(l1_cache) \/ L2Hit(id)
        tier == ServingTier(id, outcome)
        obj == FoundObj(id, outcome)
        victim == IF tier \in {"l2", "redis"} THEN EvictedKey(l1_cache) ELSE NoId
        reads_own == (pending # NoObj /\ pending.id = id)
    IN  /\ outcome \in (IF localHit \/ ~redis_client THEN {"none"} ELSE RedisGetOutcomes)
        /\ l1_cache' = L1AfterRetrieve(id, tier, obj)
        /\ l2_cache' = IF tier = "redis" THEN SetL2(l2_cache, id, compress_memory(obj))
                       ELSE l2_cache
        /\ cache_stats' = [cache_stats EXCEPT ![HitCounter(tier)] = @ + 1]
        /\ failed_calls' = IF outcome \in {"fail_flag", "fail_data"}
                           THEN failed_calls + 1 ELSE failed_calls
        /\ access_order' = IF tier = "none" THEN access_order
                           ELSE Touch(access_order, id, victim)
        /\ pending' = IF reads_own THEN NoObj ELSE pending
        /\ only_stores' = FALSE
        /\ store_log' = <<>>
        /\ last_op' = [NoOp EXCEPT
                !.op = "retrieve", !.id = id, !.tier = tier,
                !.found = (tier # "none"),
                !.ret = IF tier = "none" THEN NoObj ELSE update_access_stats(obj, now),
                !.evicted = victim,
                !.lru = IF victim = NoId THEN NoId ELSE Head(access_order),
                !.expected = IF reads_own THEN pending ELSE NoObj,
                !.prev = IF last_op.op = "store" /\ last_op.found /\ last_op.id = id
                         THEN last_op.ret ELSE NoObj,
                !.degraded = (last_op.degraded /\ outcome \in {"none", "fail_flag"})]
        /\ UNCHANGED <<redis_client, redis_mem, redis_flag, now>>
        /\ UNCHANGED <<codec_vars, cons_vars, facade_vars, thread_vars>>

Retrieve ==
    /\ Retrieves < MaxRetrieves
    /\ \E id \in RetrieveIds,
          outcome \in {"none", "ok", "fail_flag", "fail_data"} :
           RetrieveMemory(id, outcome)

(***************************************************************************)
(* The background loops                                                    *)
(***************************************************************************)
LastAccessed(obj) == IF obj.last_accessed = NoTime THEN 0 ELSE obj.last_accessed

\* the sort key of _optimize_l1_cache: (access_count, last_accessed)
KeyGE(a, b) ==
    \/ a.access_count > b.access_count
    \/ a.access_count = b.access_count /\ LastAccessed(a) >= LastAccessed(b)

RECURSIVE InsertDesc(_, _)
InsertDesc(sorted, obj) ==
    IF sorted = <<>> THEN <<obj>>
    ELSE IF KeyGE(Head(sorted), obj) THEN <<Head(sorted)>> \o InsertDesc(Tail(sorted), obj)
    ELSE <<obj>> \o sorted

\* sorted(items, key=..., reverse=True): stable, largest key first
RECURSIVE SortDesc(_, _)
SortDesc(done, rest) ==
    IF rest = <<>> THEN done ELSE SortDesc(InsertDesc(done, Head(rest)), Tail(rest))

optimize_l1_cache(l1) == SortDesc(<<>>, l1)

Janitor(op) ==
    /\ pending' = NoObj
    /\ only_stores' = FALSE
    /\ store_log' = <<>>
    /\ UNCHANGED <<redis_client, redis_mem, redis_flag, cache_stats, now, failed_calls>>
    /\ UNCHANGED <<codec_vars, cons_vars, facade_vars, thread_vars>>

OptimizeL1Cache ==
    /\ l1_cache' = optimize_l1_cache(l1_cache)
    /\ last_op' = [NoOp EXCEPT !.op = "optimize", !.l1_before = l1_cache]
    /\ UNCHANGED <<l2_cache, access_order>>
    /\ Janitor("optimize")

\* mutant: popitem() takes the newest entries
aggressive_l1_newest(l1) == SubSeq(l1, 1, Len(l1) - (Len(l1) \div 2))

\* popitem(last=False), len // 2 times
aggressive_l1(l1) == SubSeq(l1, (Len(l1) \div 2) + 1, Len(l1))

\* del of the first len // 4 keys
aggressive_l2(l2) == SubSeq(l2, (Len(l2) \div 4) + 1, Len(l2))

AggressiveCleanup ==
    /\ l1_cache' = aggressive_l1(l1_cache)
    /\ l2_cache' = aggressive_l2(l2_cache)
    /\ access_order' = SelectSeq(access_order, LAMBDA k : k \in Ids(aggressive_l1(l1_cache)))
    /\ last_op' = [NoOp EXCEPT !.op = "aggressive", !.n1 = Len(l1_cache), !.n2 = Len(l2_cache),
                               !.l1_before = l1_cache, !.l2_before = l2_cache]
    /\ Janitor("aggressive")

\* memory_obj.get("timestamp", 0)
Timestamp(obj) == IF obj = NoObj THEN 0 ELSE obj.timestamp

\* entries of Tier 2 older than the TTL are deleted
Expired(entry) == now - Timestamp(decompress_memory(entry.data)) > cache_ttl_seconds

routine_l2(l2) == SelectSeq(l2, LAMBDA e : ~Expired(e))

RoutineCleanup ==
    /\ l2_cache' = routine_l2(l2_cache)
    /\ last_op' = [NoOp EXCEPT !.op = "routine", !.n2 = Len(l2_cache)]
    /\ UNCHANGED <<l1_cache, access_order>>
    /\ Janitor("routine")

(***************************************************************************)
(* get_memory_stats                                                        *)
(***************************************************************************)
get_memory_stats ==
    [l1_cache_size |-> Len(l1_cache), l2_cache_size |-> Len(l2_cache),
     cache_stats |-> cache_stats, redis_connected |-> redis_client]

\* the adapter failure count a reader finds in the statistics
AdapterFailures(stats) ==
    IF "redis_failures" \in DOMAIN stats.cache_stats
    THEN stats.cache_stats["redis_failures"] ELSE 0

GetMemoryStats ==
    /\ last_op.op # "stats"
    /\ last_op' = [NoOp EXCEPT !.op = "stats", !.n1 = get_memory_stats.l1_cache_size,
                               !.n2 = get_memory_stats.l2_cache_size,
                               !.failures_reported = AdapterFailures(get_memory_stats)]
    /\ UNCHANGED <<l1_cache, l2_cache, redis_client, redis_mem, redis_flag, cache_stats, now,
                   access_order, store_log, only_stores, pending, failed_calls>>
    /\ UNCHANGED <<codec_vars, cons_vars, facade_vars, thread_vars>>


(***************************************************************************)
(* MemoryConsolidationEngine.consolidate_framework_memories and the        *)
(* requests it sends to the memory API                                     *)
(***************************************************************************)
MaxRuns == 2
MaxAdds == 1
MaxFailing == 2

\* 1.0 in confidence units: a float is given by its first four decimals
One == 10000
\* 3600 seconds, in units of created_at
Hour == 4

\* a float in [0.0, 1.0]
InUnit(x) == 0 <= x /\ x <= One

Rp == "retry_policy"
To == "timeout"

Content(text, causal, action) == [text |-> text, causal |-> causal, action |-> action]

\* a MemoryEntry: content is given by its text, the (cause, effect) matches the
\* causal templates find in it, and whether it holds one of the action words
Entry(id, content, concepts, created_at) ==
    [id |-> id, content |-> content, concepts |-> concepts,
     importance |-> One \div 2, created_at |-> created_at]

\* the importance the API holds for an entry, anywhere in [0, 1]
WithImportance(entry, importance) == [entry EXCEPT !.importance = importance]

CacheConcepts == <<"cache", "ttl", "eviction", "redis">>

EpisodicPool ==
    {WithImportance(Entry("e1", Content("retry after a 503", <<>>, FALSE), <<Rp>>, 0), 0),
     Entry("e7", Content("retry budget is 3", <<>>, FALSE), <<Rp>>, 1),
     Entry("e2", Content("decided on backoff", <<>>, TRUE), <<Rp, To>>, 2),
     WithImportance(Entry("e3", Content("chose a 30s timeout", <<>>, TRUE), <<Rp, To>>, 3), One),
     Entry("e4", Content("the deploy caused an outage",
                         <<(<<"the deploy", "an outage">>)>>, FALSE), <<"deploy">>, 9),
     WithImportance(Entry("e5", Content("decided to cache reads", <<>>, TRUE),
                          CacheConcepts, 20), One - One \div 20),
     Entry("e6", Content("selected a ttl of 60s", <<>>, TRUE), CacheConcepts \o <<"ttl">>, 21)}

InSeq(x, s) == \E i \in DOMAIN s : s[i] = x

RECURSIVE Concat(_)
Concat(ss) == IF ss = <<>> THEN <<>> ELSE Head(ss) \o Concat(Tail(ss))

RECURSIVE Uniq(_)
Uniq(s) ==
    IF s = <<>> THEN <<>>
    ELSE LET r == Uniq(SubSeq(s, 1, Len(s) - 1))
         IN  IF InSeq(s[Len(s)], r) THEN r ELSE Append(r, s[Len(s)])

Count(s, x) == Cardinality({i \in DOMAIN s : s[i] = x})

\* sorted(): the stable ascending order of the indices by their keys
StableOrder(keys) ==
    [i \in DOMAIN keys |->
        CHOOSE j \in DOMAIN keys :
            Cardinality({k \in DOMAIN keys :
                            keys[k] < keys[j] \/ (keys[k] = keys[j] /\ k < j)}) + 1 = i]

SortedBy(s, keys) == [i \in DOMAIN s |-> s[StableOrder(keys)[i]]]

Indices(n) == [i \in 1..n |-> i]

MemoryPattern(type, confidence, supporting, concepts) ==
    [pattern_type |-> type, confidence |-> confidence,
     supporting_memories |-> supporting, concepts |-> concepts]

\* 0.7 + n * 0.1 in floats: 0.7999999999999999, 0.8999999999999999, 1.0, 1.1, ...
temporal_confidence(n) ==
    IF n \in {1, 2} THEN 7 * (One \div 10) + n * (One \div 10) - 1
    ELSE 7 * (One \div 10) + n * (One \div 10)

\* 0.6 + min(n * 0.1, 0.3) in floats: 0.7, 0.8, 0.8999999999999999 from n = 3 on
conceptual_confidence(n) ==
    IF n >= 3 THEN 9 * (One \div 10) - 1 ELSE 6 * (One \div 10) + n * (One \div 10)

causal_confidence == 8 * (One \div 10)
behavioral_confidence == 7 * (One \div 10)
min_confidence == 6 * (One \div 10)

find_temporal_patterns(memories) ==
    LET sorted_memories ==
            SortedBy(memories, [i \in DOMAIN memories |-> memories[i].created_at])
        Common(i) ==
            Uniq(SelectSeq(sorted_memories[i].concepts,
                           LAMBDA c : InSeq(c, sorted_memories[i + 1].concepts)))
        Sequential(i) ==
            /\ sorted_memories[i + 1].created_at - sorted_memories[i].created_at < Hour
            /\ Common(i) # <<>>
        hits == SelectSeq(Indices(Len(sorted_memories) - 1), Sequential)
    IN  [k \in DOMAIN hits |->
            MemoryPattern("temporal", temporal_confidence(Len(Common(hits[k]))),
                          <<sorted_memories[hits[k]].id, sorted_memories[hits[k] + 1].id>>,
                          Common(hits[k]))]

find_causal_patterns(memories) ==
    Concat([i \in DOMAIN memories |->
               [k \in DOMAIN memories[i].content.causal |->
                   MemoryPattern("causal", causal_confidence, <<memories[i].id>>,
                                 memories[i].content.causal[k])]])

\* concept_groups of _identify_patterns: the keys in insertion order, and a group
ConceptKeys(memories) == Uniq(Concat([i \in DOMAIN memories |-> memories[i].concepts]))
\* (a memory is appended once for every occurrence of the concept in its list)
ConceptGroup(memories, concept) ==
    Concat([i \in DOMAIN memories |->
               [k \in 1..Count(memories[i].concepts, concept) |-> memories[i]]])

\* Counter(all_concepts).most_common(5), kept when counted at least twice
CommonConcepts(group) ==
    LET all_concepts == Concat([i \in DOMAIN group |-> group[i].concepts])
        keys == Uniq(all_concepts)
        ranked == SortedBy(keys, [i \in DOMAIN keys |-> 0 - Count(all_concepts, keys[i])])
        top == SubSeq(ranked, 1, IF Len(ranked) < 5 THEN Len(ranked) ELSE 5)
    IN  SelectSeq(top, LAMBDA c : Count(all_concepts, c) >= 2)

find_conceptual_patterns(memories) ==
    LET keys == ConceptKeys(memories)
        Clustered(c) ==
            /\ Len(ConceptGroup(memories, c)) >= 3
            /\ Len(CommonConcepts(ConceptGroup(memories, c))) >= 2
        hits == SelectSeq(keys, Clustered)
    IN  [k \in DOMAIN hits |->
            LET group == ConceptGroup(memories, hits[k])
            IN  MemoryPattern("conceptual", conceptual_confidence(Len(group)),
                              [i \in DOMAIN group |-> group[i].id],
                              CommonConcepts(group))]

find_behavioral_patterns(memories) ==
    LET acting == SelectSeq(memories, LAMBDA m : m.content.action)
        keys == ConceptKeys(acting)
        hits == SelectSeq(keys, LAMBDA c : Len(ConceptGroup(acting, c)) >= 2)
    IN  [k \in DOMAIN hits |->
            LET group == ConceptGroup(acting, hits[k])
            IN  MemoryPattern("behavioral", behavioral_confidence,
                              [i \in DOMAIN group |-> group[i].id], <<hits[k]>>)]

\* _identify_patterns: all four detectors, the confidence filter, the ranking, the top 10
detect_patterns(memories) ==
    find_temporal_patterns(memories) \o find_causal_patterns(memories)
    \o find_conceptual_patterns(memories) \o find_behavioral_patterns(memories)

\* mutant: the patterns are cut to 10 without being ranked
identify_patterns_unranked(memories) ==
    LET kept == SelectSeq(detect_patterns(memories), LAMBDA p : p.confidence >= min_confidence)
    IN  SubSeq(kept, 1, IF Len(kept) < 10 THEN Len(kept) ELSE 10)

identify_patterns(memories) ==
    LET found == detect_patterns(memories)
        kept == SelectSeq(found, LAMBDA p : p.confidence >= min_confidence)
        ranked == SortedBy(kept, [i \in DOMAIN kept |-> 0 - kept[i].confidence])
    IN  SubSeq(ranked, 1, IF Len(ranked) < 10 THEN Len(ranked) ELSE 10)

\* _extract_semantic_knowledge: one semantic memory per pattern; the content is
\* the knowledge extracted from the pattern (the timestamp in the metadata is
\* left out)
semantic_memory(pattern) ==
    [content |-> <<pattern.pattern_type, pattern.concepts>>,
     concepts |-> pattern.concepts,
     importance |-> IF pattern.confidence < One THEN pattern.confidence ELSE One,
     source_type |-> "consolidation",
     pattern_type |-> pattern.pattern_type,
     confidence |-> pattern.confidence,
     supporting_memories |-> pattern.supporting_memories]

extract_semantic_knowledge(patterns) ==
    [i \in DOMAIN patterns |-> semantic_memory(patterns[i])]

RECURSIVE Sum(_)
Sum(s) == IF s = <<>> THEN 0 ELSE Head(s) + Sum(Tail(s))

PatternTypes(patterns) == {patterns[i].pattern_type : i \in DOMAIN patterns}

\* _calculate_consolidation_score
calculate_consolidation_score(patterns, semantic_memories) ==
    IF patterns = <<>> THEN 0
    ELSE LET avg_confidence ==
                 Sum([i \in DOMAIN patterns |-> patterns[i].confidence]) \div Len(patterns)
             score == avg_confidence + Cardinality(PatternTypes(patterns)) * (One \div 10)
                      + Len(semantic_memories) * (One \div 20)
         IN  IF score < One THEN score ELSE One

\* confidence * 0.1, rounded to the unit
Tenth(confidence) == (confidence + 5) \div 10

\* memory_pattern_map[id]: a pattern is appended once for every occurrence of
\* the id in its supporting_memories
Supporting(patterns, id) ==
    Concat([i \in DOMAIN patterns |->
               [k \in 1..Count(patterns[i].supporting_memories, id) |-> patterns[i]]])

\* mutant: the boosted importance is not capped
new_importance_uncapped(memory, patterns) ==
    memory.importance
    + Sum([i \in DOMAIN Supporting(patterns, memory.id) |->
              Tenth(Supporting(patterns, memory.id)[i].confidence)])

new_importance(memory, patterns) ==
    LET supporting_patterns == Supporting(patterns, memory.id)
        importance_boost ==
            Sum([i \in DOMAIN supporting_patterns |-> Tenth(supporting_patterns[i].confidence)])
    IN  IF memory.importance + importance_boost < One
        THEN memory.importance + importance_boost ELSE One

\* _update_memory_importance: the PATCH requests, in the order of the batch
importance_updates(episodic_memories, patterns) ==
    LET boosted == SelectSeq(episodic_memories, LAMBDA m : Supporting(patterns, m.id) # <<>>)
    IN  [i \in DOMAIN boosted |->
            [id |-> boosted[i].id, importance |-> new_importance(boosted[i], patterns)]]

\* the API applies a PATCH that it answers with 200
api_patch(episodic, updates) ==
    [i \in DOMAIN episodic |->
        IF \E k \in DOMAIN updates : updates[k].id = episodic[i].id
        THEN [episodic[i] EXCEPT !.importance =
                 updates[CHOOSE k \in DOMAIN updates : updates[k].id = episodic[i].id].importance]
        ELSE episodic[i]]

\* _get_episodic_memories: the memories of a 200 answer, [] for any other status
get_episodic_memories(status) == IF status = "200" THEN api_episodic ELSE <<>>

ConsolidationResult(episodic_memories, patterns, semantic_memories, new_memory_ids) ==
    [episodic_count |-> Len(episodic_memories),
     semantic_count |-> Len(semantic_memories),
     consolidation_score |-> calculate_consolidation_score(patterns, semantic_memories),
     patterns_found |-> patterns,
     new_memories_created |-> new_memory_ids]

NoResult == ConsolidationResult(<<>>, <<>>, <<>>, -1)

\* mutant: only the empty batch returns early
too_few_only_empty(episodic_memories) == Len(episodic_memories) < 1

\* "if len(episodic_memories) < 2"
too_few(episodic_memories) == Len(episodic_memories) < 2

\* two batches hold the same records, whatever importance they have by now
SameBatch(a, b) ==
    /\ Len(a) = Len(b)
    /\ \A i \in DOMAIN a : [a[i] EXCEPT !.importance = 0] = [b[i] EXCEPT !.importance = 0]

NoRun ==
    [op |-> "none", raised |-> FALSE, got_batch |-> FALSE, batch |-> <<>>,
     result |-> NoResult, same_batch |-> FALSE, found |-> <<>>, patterns |-> <<>>,
     semantic_before |-> 0, patches_before |-> 0, records_before |-> 0,
     episodic_before |-> <<>>]

MaxOverlap == 2
ConsTasks == 1..MaxOverlap

\* a run of consolidate_framework_memories that has not started: its place,
\* the semantic memories and the importance updates it has still to send,
\* and its result
NoTask == [pc |-> "idle", semantic_memories |-> <<>>, updates |-> <<>>, result |-> NoResult]

ConsIdle ==
    /\ cons_task = [r \in ConsTasks |-> NoTask]
    /\ api_episodic = <<>>
    /\ api_semantic = <<>>
    /\ api_patches = <<>>
    /\ api_records = <<>>
    /\ cons_runs = 0
    /\ cons_adds = 0
    /\ cons_last = NoRun

\* the records the API holds, oldest first
RECURSIVE ByCreatedAt(_)
ByCreatedAt(held) ==
    IF held = {} THEN <<>>
    ELSE LET e == CHOOSE x \in held : \A y \in held : x.created_at <= y.created_at
         IN  <<e>> \o ByCreatedAt(held \ {e})

MaxBatch == 2

\* what the API holds at the start: up to MaxBatch records of the pool, the
\* three records that share "retry_policy" only, or the whole pool
Batches ==
    {held \in SUBSET EpisodicPool : Cardinality(held) <= MaxBatch}
        \cup {{e \in EpisodicPool : e.id \in {"e1", "e7", "e2"}}, EpisodicPool}

ConsInit ==
    /\ EngineIdle
    /\ CodecIdle
    /\ FacadeIdle
    /\ \E held \in Batches : api_episodic = ByCreatedAt(held)
    /\ cons_task = [r \in ConsTasks |-> NoTask]
    /\ api_semantic = <<>>
    /\ api_patches = <<>>
    /\ api_records = <<>>
    /\ cons_runs = 0
    /\ cons_adds = 0
    /\ cons_last = NoRun

RunStart(batch, got) ==
    [NoRun EXCEPT !.op = "consolidate", !.got_batch = got, !.batch = batch,
                  !.same_batch = got /\ cons_last.op = "consolidate" /\ cons_last.got_batch
                                 /\ ~cons_last.raised /\ SameBatch(batch, cons_last.batch),
                  !.semantic_before = Len(api_semantic),
                  !.patches_before = Len(api_patches),
                  !.records_before = Len(api_records),
                  !.episodic_before = api_episodic]

\* consolidate_framework_memories; get is the answer to the GET ("error": the
\* request itself fails), failing the number of the first POST of a semantic
\* memory that is not answered with 201 (0: none), patch the answer to the PATCHes
ConsolidateFrameworkMemories(get, failing, patch) ==
    \E episodic_memories \in {get_episodic_memories(get)} :
    \E found \in {detect_patterns(episodic_memories)} :
    \E patterns \in {identify_patterns(episodic_memories)} :
    \E semantic_memories \in {extract_semantic_knowledge(patterns)} :
    \E updates \in {importance_updates(episodic_memories, patterns)} :
    \E result \in {ConsolidationResult(episodic_memories, patterns, semantic_memories,
                                       Len(semantic_memories))} :
    /\ cons_runs < MaxRuns
    /\ cons_runs' = cons_runs + 1
    /\ UNCHANGED <<cons_adds, cons_task>>
    /\ IF get = "error"
       THEN /\ failing = 0 /\ patch = "200"
            /\ cons_last' = [RunStart(<<>>, FALSE) EXCEPT !.raised = TRUE]
            /\ UNCHANGED <<api_episodic, api_semantic, api_patches, api_records>>
       ELSE IF too_few(episodic_memories)
       THEN /\ failing = 0 /\ patch = "200"
            /\ cons_last' = [RunStart(episodic_memories, TRUE) EXCEPT
                                !.result = ConsolidationResult(episodic_memories, <<>>, <<>>, 0)]
            /\ UNCHANGED <<api_episodic, api_semantic, api_patches, api_records>>
       ELSE IF failing > 0
       THEN /\ failing <= Len(semantic_memories) /\ patch = "200"
            /\ api_semantic' = api_semantic \o SubSeq(semantic_memories, 1, failing - 1)
            /\ cons_last' = [RunStart(episodic_memories, TRUE) EXCEPT
                                !.raised = TRUE, !.patterns = patterns,
                                !.found = found]
            /\ UNCHANGED <<api_episodic, api_patches, api_records>>
       ELSE /\ api_semantic' = api_semantic \o semantic_memories
            /\ api_patches' = api_patches \o updates
            /\ api_episodic' = IF patch = "200" THEN api_patch(api_episodic, updates)
                               ELSE api_episodic
            /\ api_records' = Append(api_records, result)
            /\ cons_last' = [RunStart(episodic_memories, TRUE) EXCEPT
                                !.result = result, !.patterns = patterns,
                                !.found = found]
    /\ UNCHANGED <<engine_vars, codec_vars, facade_vars, thread_vars>>

Consolidate ==
    \E get \in {"200", "500", "error"}, failing \in 0..MaxFailing, patch \in {"200", "500"} :
        ConsolidateFrameworkMemories(get, failing, patch)

\* another episodic memory reaches the API between two runs
AddEpisodic ==
    /\ cons_adds < MaxAdds
    /\ \E e \in EpisodicPool :
          /\ \A i \in DOMAIN api_episodic : api_episodic[i].id # e.id
          /\ api_episodic' = Append(api_episodic, e)
    /\ cons_adds' = cons_adds + 1
    /\ cons_last' = [cons_last EXCEPT !.op = "add"]
    /\ UNCHANGED <<api_semantic, api_patches, api_records, cons_runs, cons_task>>
    /\ UNCHANGED <<engine_vars, codec_vars, facade_vars, thread_vars>>

ConsNext == Consolidate \/ AddEpisodic

SpecConsolidation == ConsInit /\ [][ConsNext]_vars

Stored == Len(api_semantic) - cons_last.semantic_before
Patched == Len(api_patches) - cons_last.patches_before

\* C9 as stated: a run on the same unchanged episodic batch as the run before
\* it, with no record added in between, stores no further semantic memory.
C9_Idempotent == cons_last.same_batch => (Stored = 0)

\* C10: a run whose batch holds fewer than 2 records returns a result with the
\* batch size as episodic count and zero semantic_count, new_memories_created
\* and patterns, stores no semantic memory, updates no importance, and does
\* not raise.
C10_TooFewIsNoOp ==
    (cons_last.op = "consolidate" /\ cons_last.got_batch /\ Len(cons_last.batch) < 2) =>
        /\ ~cons_last.raised
        /\ cons_last.result.episodic_count = Len(cons_last.batch)
        /\ cons_last.result.semantic_count = 0
        /\ cons_last.result.new_memories_created = 0
        /\ cons_last.result.patterns_found = <<>>
        /\ Stored = 0
        /\ Patched = 0
        /\ api_episodic = cons_last.episodic_before

\* C10 witness: a run over a single record whose content holds a cause and an
\* effect returned without effect
C10_Witness ==
    /\ cons_last.op = "consolidate"
    /\ cons_last.got_batch
    /\ Len(cons_last.batch) = 1
    /\ cons_last.batch[1].content.causal # <<>>
    /\ cons_last.result.episodic_count = 1
    /\ Stored = 0

\* a run over the empty batch of a non-200 answer, while the API holds records
C10_WitnessEmpty ==
    /\ cons_last.op = "consolidate"
    /\ cons_last.got_batch
    /\ cons_last.batch = <<>>
    /\ api_episodic # <<>>
    /\ cons_last.result.episodic_count = 0

\* C11: every importance _update_memory_importance writes for an episodic
\* record, and every importance given to a synthesized semantic memory, lies
\* in [0.0, 1.0], after any sequence of runs.
C11_ImportanceRange ==
    /\ \A i \in DOMAIN api_patches : InUnit(api_patches[i].importance)
    /\ \A i \in DOMAIN api_semantic : InUnit(api_semantic[i].importance)

\* C11 witness: a boost was cut at 1.0, and so was the importance of a
\* semantic memory whose pattern has a confidence above 1.0
C11_Witness ==
    /\ \E i \in DOMAIN api_patches :
          /\ api_patches[i].importance = One
          /\ \E k \in DOMAIN cons_last.batch :
                /\ cons_last.batch[k].id = api_patches[i].id
                /\ cons_last.batch[k].importance
                   + Tenth(min_confidence) * Len(Supporting(cons_last.patterns,
                                                            api_patches[i].id)) > One
    /\ \E j \in DOMAIN api_semantic :
          api_semantic[j].confidence > One /\ api_semantic[j].importance = One

\* three records with distinct content, all tagged "retry_policy", all created
\* within the same hour
SharedConceptBatch(batch) ==
    /\ Len(batch) = 3
    /\ \A i \in DOMAIN batch : InSeq(Rp, batch[i].concepts)
    /\ \A i, j \in DOMAIN batch : i # j => batch[i].content.text # batch[j].content.text
    /\ \A i, j \in DOMAIN batch : batch[i].created_at - batch[j].created_at < Hour

\* C12 as stated: a run over three such records creates exactly one semantic
\* memory (semantic_count = new_memories_created = 1), and its concepts
\* include "retry_policy".
C12_SharedConceptScenario ==
    (cons_last.op = "consolidate" /\ cons_last.got_batch /\ ~cons_last.raised
     /\ SharedConceptBatch(cons_last.batch))
        => /\ cons_last.result.semantic_count = 1
           /\ cons_last.result.new_memories_created = 1
           /\ Stored = 1
           /\ InSeq(Rp, api_semantic[Len(api_semantic)].concepts)

\* the detected patterns that _identify_patterns did not return
Dropped(found, kept) == SelectSeq(found, LAMBDA p : Count(found, p) > Count(kept, p))

\* C15: _identify_patterns returns at most 10 of the detected patterns, each
\* with confidence >= 0.6, in order of non-increasing confidence, and no
\* pattern it dropped has a higher confidence than one it kept.
C15_RankingAndCutoff ==
    LET kept == cons_last.patterns
        found == cons_last.found
    IN  /\ Len(kept) <= 10
        /\ \A i \in DOMAIN kept : kept[i].confidence >= min_confidence
        /\ \A i, j \in DOMAIN kept : i < j => kept[i].confidence >= kept[j].confidence
        /\ \A i \in DOMAIN kept : Count(kept, kept[i]) <= Count(found, kept[i])
        /\ \A d \in DOMAIN Dropped(found, kept), k \in DOMAIN kept :
               Dropped(found, kept)[d].confidence <= kept[k].confidence

\* C15 witness: more than 10 patterns of differing confidence were detected
\* and 10 returned
C15_Witness ==
    /\ Len(cons_last.found) > 10
    /\ Len(cons_last.patterns) = 10
    /\ cons_last.patterns[1].confidence > cons_last.patterns[10].confidence

\* C16 as stated: every pattern a detector emits has a confidence in [0, 1].
C16_ConfidenceRange ==
    \A i \in DOMAIN cons_last.found : InUnit(cons_last.found[i].confidence)

\* the accepted patterns that list the record as a supporting memory
PatternsSupported(patterns, id) ==
    SelectSeq(patterns, LAMBDA p : InSeq(id, p.supporting_memories))

\* min(old importance + 0.1 * (sum of their confidences), 1.0)
BoostRule(memory, patterns) ==
    LET supported == PatternsSupported(patterns, memory.id)
        boosted == memory.importance
                   + Sum([i \in DOMAIN supported |-> Tenth(supported[i].confidence)])
    IN  IF boosted < One THEN boosted ELSE One

\* the PATCH requests of the last run
RunPatches == SubSeq(api_patches, cons_last.patches_before + 1, Len(api_patches))

\* C28 as stated: a run that reaches its end issues, for every record of the
\* batch that supports an accepted pattern, one importance update with
\* min(old + 0.1 * sum of the confidences of the patterns it supports, 1.0),
\* and none for a record that supports no accepted pattern.
C28_ImportanceBoostRule ==
    (cons_last.op = "consolidate" /\ ~cons_last.raised /\ ~too_few(cons_last.batch))
        => \A k \in DOMAIN cons_last.batch :
              LET memory == cons_last.batch[k]
                  mine == SelectSeq(RunPatches, LAMBDA u : u.id = memory.id)
              IN  IF PatternsSupported(cons_last.patterns, memory.id) = <<>>
                  THEN mine = <<>>
                  ELSE /\ Len(mine) = 1
                       /\ mine[1].importance = BoostRule(memory, cons_last.patterns)

\* "limit": 100 of the GET, in the scale of the pool
episodic_limit == 4

\* C29 as stated: a run examines no more records than the per-run cap,
\* whatever number of records the API returns.
C29_BoundedInput ==
    cons_last.op = "consolidate" => Len(cons_last.batch) <= episodic_limit

\* C30 as stated: a run that returns a ConsolidationResult has handed exactly
\* one consolidation record, that of its result, to the API before returning.
C30_EveryRunAudited ==
    (cons_last.op = "consolidate" /\ ~cons_last.raised)
        => /\ Len(api_records) = cons_last.records_before + 1
           /\ api_records[Len(api_records)] = cons_last.result

(***************************************************************************)
(* _compress_memory followed by _decompress_memory, on memory objects      *)
(* drawn from a bounded set                                                *)
(***************************************************************************)
MetaStr == [none |-> FALSE,
            items |-> {[k |-> PyVal("str", "category"), v |-> PyVal("str", "validation")]}]
MetaInt == [none |-> FALSE,
            items |-> {[k |-> PyVal("str", "test_id"), v |-> PyVal("int", "1")]}]
MetaList == [none |-> FALSE,
             items |-> {[k |-> PyVal("str", "tags"), v |-> PyVal("list", "x,y")]}]
MetaObj == [none |-> FALSE,
            items |-> {[k |-> PyVal("str", "when"), v |-> PyVal("obj", "2024-01-01 00:00:00")]}]
MetaIntKey == [none |-> FALSE,
               items |-> {[k |-> PyVal("int", "1"), v |-> PyVal("str", "v")]}]

CodecMetadatas == {MetaNone, MetaStr, MetaInt, MetaList, MetaTags, MetaObj, MetaIntKey}
CodecContents == {<<>>, <<"x">>, <<"x", "y">>, <<"x", "y", "z">>}

\* objects as store_memory builds them, fresh or with updated access statistics
CodecInputs ==
    LET fresh == {MemoryObj(c, m, a, StartTime) :
                      c \in CodecContents, m \in CodecMetadatas, a \in Agents}
    IN  fresh \cup {update_access_stats(o, StartTime + 1) : o \in fresh}

CodecInit ==
    /\ EngineIdle
    /\ ConsIdle
    /\ FacadeIdle
    /\ codec_pc = "start"
    /\ codec_in \in CodecInputs
    /\ codec_data = compress_memory(NoObj)
    /\ codec_out = NoObj

CodecCompress ==
    /\ codec_pc = "start"
    /\ codec_data' = compress_memory(codec_in)
    /\ codec_pc' = "compressed"
    /\ UNCHANGED <<codec_in, codec_out, engine_vars, cons_vars, facade_vars, thread_vars>>

CodecDecompress ==
    /\ codec_pc = "compressed"
    /\ codec_out' = decompress_memory(codec_data)
    /\ codec_pc' = "done"
    /\ UNCHANGED <<codec_in, codec_data, engine_vars, cons_vars, facade_vars, thread_vars>>

CodecNext == CodecCompress \/ CodecDecompress

SpecCodec == CodecInit /\ [][CodecNext]_vars

\* C8 as stated: for every memory object, below, at or above the compression
\* threshold, _decompress_memory(_compress_memory(obj)) equals obj.
C8_RoundTrip == (codec_pc = "done") => (codec_out = codec_in)

(***************************************************************************)
(* Reads that meet a payload the tier cannot decode: an engine that is     *)
(* restarted over the same Redis, and a Tier 2 entry whose bytes are       *)
(* damaged                                                                 *)
(***************************************************************************)
\* store_memory calls whose serialized length straddles the threshold with
\* the same content and metadata, so the same id within a millisecond
ReadInputs ==
    {[content |-> <<"x", "y">>, metadata |-> MetaNone, agent |-> LongAgent],
     [content |-> <<"x", "y">>, metadata |-> MetaNone, agent |-> "a1"],
     [content |-> <<"x">>, metadata |-> MetaNone, agent |-> "a2"]}

StoreRead ==
    /\ cache_stats.stores < MaxStores
    /\ \E in \in ReadInputs, outcome \in {"skip", "ok", "fail_data", "fail_flag"} :
           StoreMemory(in.content, in.metadata, in.agent, outcome)

\* OptimizedMemoryEngine(config) again, in a new process: empty Tier 1 and
\* Tier 2, zeroed statistics, the same Redis server
Restart ==
    /\ cache_stats.stores + Retrieves > 0
    /\ l1_cache' = <<>>
    /\ l2_cache' = <<>>
    /\ redis_client' \in BOOLEAN
    /\ cache_stats' = [stores |-> 0, l1_hits |-> 0, l2_hits |-> 0, redis_hits |-> 0,
                       misses |-> 0, searches |-> 0]
    /\ access_order' = <<>>
    /\ store_log' = <<>>
    /\ only_stores' = FALSE
    /\ pending' = NoObj
    /\ last_op' = [NoOp EXCEPT !.op = "restart"]
    /\ UNCHANGED <<redis_mem, redis_flag, now, failed_calls>>
    /\ UNCHANGED <<codec_vars, cons_vars, facade_vars, thread_vars>>

\* a fault of the process's memory: the bytes of one Tier 2 entry are damaged
CorruptL2 ==
    /\ \E i \in 1..Len(l2_cache) :
           /\ l2_cache[i].data # Garbage
           /\ l2_cache' = [l2_cache EXCEPT ![i].data = Garbage]
    /\ last_op' = [NoOp EXCEPT !.op = "corrupt"]
    /\ store_log' = <<>>
    /\ only_stores' = FALSE
    /\ pending' = NoObj
    /\ UNCHANGED <<l1_cache, redis_client, redis_mem, redis_flag, cache_stats, now,
                   access_order, failed_calls>>
    /\ UNCHANGED <<codec_vars, cons_vars, facade_vars, thread_vars>>

ReadsInit == EngineInit /\ CodecIdle /\ ConsIdle /\ FacadeIdle

ReadsNext == StoreRead \/ Retrieve \/ Restart \/ CorruptL2

SpecReads == ReadsInit /\ [][ReadsNext]_vars

\* the step is a retrieve_memory(id) call
RetrieveStep(id) ==
    /\ last_op'.op = "retrieve"
    /\ last_op'.id = id
    /\ Retrieves' = Retrieves + 1

MalformedL2(l2, id) == id \in Ids(l2) /\ Lookup(l2, id).data = Garbage

\* C17 as stated: a retrieve_memory that finds an undecodable Tier 2 entry is not
\* served by Tier 2, leaves no malformed entry for the id in Tier 2, and does
\* not change the durable copy.
C17_SelfHealing ==
    [][\A id \in Ids(l2_cache) :
          (RetrieveStep(id) /\ id \notin Ids(l1_cache) /\ MalformedL2(l2_cache, id))
              => /\ last_op'.tier # "l2"
                 /\ ~MalformedL2(l2_cache', id)
                 /\ redis_mem' = redis_mem
                 /\ redis_flag' = redis_flag]_vars

\* the durable tier holds raw serialized data for the id under a compressed flag
FlaggedRaw(id) ==
    /\ RedisHas(redis_mem, id, now)
    /\ RedisHas(redis_flag, id, now)
    /\ ~redis_mem[id].data.z
    /\ redis_mem[id].data # Garbage

\* Tier 2 holds raw serialized data for the id
RawL2(id) ==
    /\ id \in Ids(l2_cache)
    /\ ~Lookup(l2_cache, id).data.z
    /\ Lookup(l2_cache, id).data # Garbage

\* C18 as stated: a read that comes to raw serialized data returns the record
\* by raw decode, in Tier 2 and, with the compressed flag set, in the durable
\* tier.
C18_FlagMismatchRawDecode ==
    [][\A id \in Ids(l2_cache) \cup DOMAIN redis_mem :
          /\ (RetrieveStep(id) /\ id \notin Ids(l1_cache) /\ RawL2(id))
                => /\ last_op'.tier = "l2"
                   /\ last_op'.ret =
                          update_access_stats(json_loads(Lookup(l2_cache, id).data.body), now)
          /\ (RetrieveStep(id) /\ id \notin Ids(l1_cache) \cup Ids(l2_cache)
                 /\ redis_client /\ failed_calls' = failed_calls /\ FlaggedRaw(id))
                => /\ last_op'.tier = "redis"
                   /\ last_op'.ret =
                          update_access_stats(json_loads(redis_mem[id].data.body), now)]_vars

(***************************************************************************)
(* Eviction and cleanup followed by reads: enough stores to fill Tier 2    *)
(* to the size at which _aggressive_cleanup removes from it                *)
(***************************************************************************)
MaxTierStores == 4
MaxTierReads == 1

\* contents with pairwise distinct ids; the longest is compressed
TierInputs ==
    {[content |-> <<"x">>, metadata |-> MetaNone, agent |-> "a1"],
     [content |-> <<"y">>, metadata |-> MetaNone, agent |-> "a1"],
     [content |-> <<"z">>, metadata |-> MetaNone, agent |-> "a1"],
     [content |-> <<"x", "y", "z">>, metadata |-> MetaNone, agent |-> "a1"]}

StoreTier ==
    /\ cache_stats.stores < MaxTierStores
    /\ \E in \in TierInputs, outcome \in {"skip", "ok", "fail_data", "fail_flag"} :
           StoreMemory(in.content, in.metadata, in.agent, outcome)

RetrieveTier ==
    /\ Retrieves < MaxTierReads
    /\ \E id \in RetrieveIds, outcome \in {"none", "ok", "fail_flag", "fail_data"} :
           RetrieveMemory(id, outcome)

TiersInit == EngineInit /\ CodecIdle /\ ConsIdle /\ FacadeIdle

TiersNext ==
    StoreTier \/ RetrieveTier \/ OptimizeL1Cache \/ AggressiveCleanup \/ RoutineCleanup

SpecTiers == TiersInit /\ [][TiersNext]_vars

(***************************************************************************)
(* UniversalMemory.store_memory                                            *)
(***************************************************************************)
MaxCalls == 2

MemoryTypes == {"working", "episodic", "semantic"}

\* importance arguments: -0.5, 0.0, 0.5, 1.0, 1.5
Importances == {0 - One \div 2, 0, One \div 2, One, One + One \div 2}

\* MemoryEntry(id="", content, memory_type, framework, concepts, importance, metadata)
UMEntry(id, memory_type, importance) ==
    [id |-> id, memory_type |-> memory_type, importance |-> importance]

\* _store_working_memory: f"working_{int(time.time() * 1000)}"
working_id == [kind |-> "working", n |-> now \div TicksPerMs]

\* the memory_id of the API's 201 answer
api_memory_id == [kind |-> "api", n |-> Len(um_posts) + 1]

\* the json body of _store_semantic_memory
semantic_body(memory_type, importance) ==
    [source_type |-> "user_input", importance |-> importance]

CallStart(memory_type, importance) ==
    [NoCall EXCEPT !.op = "store", !.memory_type = memory_type, !.importance = importance,
                   !.redis_before = um_redis, !.posts_before = um_posts,
                   !.stats_before = um_stats]

\* store_memory. status is the API's answer to the POST, redis_ok whether the
\* setex calls go through
UMStoreMemory(memory_type, importance, status, redis_ok) ==
    /\ um_calls < MaxCalls
    /\ um_calls' = um_calls + 1
    /\ IF memory_type = "working"
       THEN /\ status = "201"
            /\ IF redis_ok
               THEN /\ um_redis' =
                         SetKey(SetKey(um_redis, <<"working_memory", working_id>>,
                                       UMEntry(working_id, memory_type, importance)),
                                <<"memory", working_id>>,
                                UMEntry(working_id, memory_type, importance))
                    /\ um_stats' = um_stats + 1
                    /\ um_last' = CallStart(memory_type, importance)
               ELSE /\ um_last' = [CallStart(memory_type, importance) EXCEPT !.raised = TRUE]
                    /\ UNCHANGED <<um_redis, um_stats>>
            /\ UNCHANGED um_posts
       ELSE /\ um_posts' = Append(um_posts, semantic_body(memory_type, importance))
            /\ IF status = "201"
               THEN /\ um_stats' = um_stats + 1
                    /\ um_redis' = IF redis_ok
                                   THEN SetKey(um_redis, <<"memory", api_memory_id>>,
                                               UMEntry(api_memory_id, memory_type, importance))
                                   ELSE um_redis
                    /\ um_last' = [CallStart(memory_type, importance) EXCEPT
                                       !.raised = ~redis_ok]
               ELSE /\ redis_ok
                    /\ um_last' = [CallStart(memory_type, importance) EXCEPT !.raised = TRUE]
                    /\ UNCHANGED <<um_redis, um_stats>>
    /\ UNCHANGED <<engine_vars, codec_vars, cons_vars, m0_vars, thread_vars>>

UMStore ==
    \E memory_type \in MemoryTypes, importance \in Importances,
       status \in {"201", "400", "500"}, redis_ok \in BOOLEAN :
        UMStoreMemory(memory_type, importance, status, redis_ok)

UMInit ==
    /\ EngineInit
    /\ CodecIdle
    /\ ConsIdle
    /\ FacadeIdle

UMNext == UMStore \/ Tick

SpecUniversal == UMInit /\ [][UMNext]_vars

time_ms == now \div TicksPerMs

\* what self.memory.add does: a result with an id, a result without, an exception
AddOutcomes == {"id", "no_id", "fail"}

\* result.get("id", f"mem0_{int(time.time() * 1000)}")
mem0_id(outcome) ==
    IF outcome = "id" THEN [kind |-> "mem0", n |-> Len(m0_backend) + 1]
    ELSE [kind |-> "mem0_ms", n |-> time_ms]

\* f"fallback_{int(time.time() * 1000)}"
fallback_id == [kind |-> "fallback", n |-> time_ms]

\* the user_id each caller passes to store_memory
TaskUser == [t \in Tasks |-> IF t = 1 THEN "alice" ELSE "bob"]

\* enhanced_metadata: the caller's metadata with framework, user_id, agent_id,
\* timestamp and source added; the stored value keeps it
enhanced_metadata(t) == [user_id |-> TaskUser[t]]

\* an exception of self.memory.add is not caught before the handler that
\* logs and re-raises
add_swallowed(outcome) == FALSE
add_raises(outcome) == outcome = "fail"

\* the points of store_memory where the coroutine gives the event loop the
\* chance to run another one: none (the only await is on
\* _store_fallback_memory, which itself awaits nothing)
suspends_before_write(pc) == pc = "loaded"
suspends(pc) == FALSE

Finished(pc) == pc \in {"done", "raised"}

\* the coroutine that runs next: the one that holds the loop, or any if none does
Scheduled(t) == m0_running \in {0, t}

Yield(t, pc) == m0_running' = IF Finished(pc) \/ suspends(pc) THEN 0 ELSE t

Raise(t, add_failed) ==
    /\ m0_pc' = [m0_pc EXCEPT ![t] = "raised"]
    /\ m0_hist' = [m0_hist EXCEPT ![t].add_failed = add_failed,
                                  ![t].stats_after = m0_stats,
                                  ![t].cache_after = m0_cache]
    /\ Yield(t, "raised")

Begin(t) == [m0_hist[t] EXCEPT !.stats_before = m0_stats, !.cache_before = m0_cache]

\* lines 164-177: self.memory.add, or the fallback id and _store_fallback_memory
M0Add(t, outcome, redis_ok) ==
    /\ Scheduled(t)
    /\ m0_pc[t] = "start"
    /\ IF m0_memory
       THEN /\ redis_ok
            /\ IF add_raises(outcome)
               THEN /\ m0_pc' = [m0_pc EXCEPT ![t] = "raised"]
                    /\ m0_hist' = [m0_hist EXCEPT ![t] =
                                      [Begin(t) EXCEPT !.add_failed = TRUE,
                                                       !.stats_after = m0_stats,
                                                       !.cache_after = m0_cache]]
                    /\ Yield(t, "raised")
                    /\ UNCHANGED <<m0_id, m0_backend, m0_cache>>
               ELSE /\ m0_pc' = [m0_pc EXCEPT ![t] = "added"]
                    /\ m0_id' = [m0_id EXCEPT ![t] = mem0_id(outcome)]
                    /\ m0_backend' = IF outcome = "fail" THEN m0_backend
                                     ELSE Append(m0_backend, t)
                    /\ m0_hist' = [m0_hist EXCEPT ![t] =
                                      [Begin(t) EXCEPT !.add_failed = (outcome = "fail")]]
                    /\ Yield(t, "added")
                    /\ UNCHANGED m0_cache
       ELSE /\ outcome = "id"
            /\ (~m0_redis => redis_ok)
            /\ m0_id' = [m0_id EXCEPT ![t] = fallback_id]
            /\ IF redis_ok
               THEN /\ m0_pc' = [m0_pc EXCEPT ![t] = "added"]
                    /\ m0_cache' = IF m0_redis
                                   THEN m0_cache \cup {<<"fallback_memory", fallback_id>>}
                                   ELSE m0_cache
                    /\ m0_values' = IF m0_redis
                                    THEN SetKey(m0_values, fallback_id, enhanced_metadata(t))
                                    ELSE m0_values
                    /\ m0_hist' = [m0_hist EXCEPT ![t] = Begin(t)]
                    /\ Yield(t, "added")
               ELSE /\ m0_pc' = [m0_pc EXCEPT ![t] = "raised"]
                    /\ m0_hist' = [m0_hist EXCEPT ![t] =
                                      [Begin(t) EXCEPT !.stats_after = m0_stats,
                                                       !.cache_after = m0_cache]]
                    /\ Yield(t, "raised")
                    /\ UNCHANGED <<m0_cache, m0_values>>
            /\ UNCHANGED m0_backend
    /\ m0_memory => UNCHANGED m0_values
    /\ UNCHANGED <<m0_search, m0_retrieves>>
    /\ UNCHANGED <<m0_memory, m0_redis, m0_tmp, m0_stats, m0_last>>
    /\ UNCHANGED <<engine_vars, codec_vars, cons_vars, um_vars, thread_vars>>

\* lines 179-187: self.redis.setex(f"memory:{memory_id}", 3600, ...)
M0Cache(t, redis_ok) ==
    /\ Scheduled(t)
    /\ m0_pc[t] = "added"
    /\ (~m0_redis => redis_ok)
    /\ IF redis_ok
       THEN /\ m0_pc' = [m0_pc EXCEPT ![t] = "cached"]
            /\ m0_cache' = IF m0_redis THEN m0_cache \cup {<<"memory", m0_id[t]>>}
                           ELSE m0_cache
            /\ Yield(t, "cached")
            /\ UNCHANGED m0_hist
       ELSE /\ Raise(t, m0_hist[t].add_failed)
            /\ UNCHANGED m0_cache
    /\ UNCHANGED <<m0_search, m0_retrieves>>
    /\ UNCHANGED <<m0_memory, m0_redis, m0_id, m0_tmp, m0_stats, m0_backend, m0_values, m0_last>>
    /\ UNCHANGED <<engine_vars, codec_vars, cons_vars, um_vars, thread_vars>>

\* line 189, the read of self.stats["memories_stored"] += 1
M0Load(t) ==
    /\ Scheduled(t)
    /\ m0_pc[t] = "cached"
    /\ m0_pc' = [m0_pc EXCEPT ![t] = "loaded"]
    /\ m0_tmp' = [m0_tmp EXCEPT ![t] = m0_stats]
    /\ Yield(t, "loaded")
    /\ UNCHANGED <<m0_search, m0_retrieves>>
    /\ UNCHANGED <<m0_memory, m0_redis, m0_id, m0_stats, m0_cache, m0_backend, m0_hist,
                   m0_values, m0_last>>
    /\ UNCHANGED <<engine_vars, codec_vars, cons_vars, um_vars, thread_vars>>

\* line 189, the write of self.stats["memories_stored"] += 1, and the return
M0Count(t) ==
    /\ Scheduled(t)
    /\ m0_pc[t] = "loaded"
    /\ m0_pc' = [m0_pc EXCEPT ![t] = "done"]
    /\ m0_stats' = m0_tmp[t] + 1
    /\ m0_hist' = [m0_hist EXCEPT ![t].stats_after = m0_tmp[t] + 1,
                                  ![t].cache_after = m0_cache]
    /\ Yield(t, "done")
    /\ UNCHANGED <<m0_search, m0_retrieves>>
    /\ UNCHANGED <<m0_memory, m0_redis, m0_id, m0_tmp, m0_cache, m0_backend, m0_values, m0_last>>
    /\ UNCHANGED <<engine_vars, codec_vars, cons_vars, um_vars, thread_vars>>

M0Init ==
    /\ EngineInit
    /\ CodecIdle
    /\ ConsIdle
    /\ UMIdle
    /\ \E memory \in BOOLEAN, redis \in BOOLEAN : M0Engine(memory, redis, "start")

M0Next ==
    \/ \E t \in Tasks, outcome \in AddOutcomes, redis_ok \in BOOLEAN :
           M0Add(t, outcome, redis_ok)
    \/ \E t \in Tasks, redis_ok \in BOOLEAN : M0Cache(t, redis_ok)
    \/ \E t \in Tasks : M0Load(t)
    \/ \E t \in Tasks : M0Count(t)
    \/ Tick

SpecMem0 == M0Init /\ [][M0Next]_vars

Returned == {t \in Tasks : m0_pc[t] = "done"}

\* C19: when the store_memory calls issued together on one engine have all
\* ended, every call that returned has an id and memories_stored has grown by
\* exactly the number of calls that returned; with all N returning, by N.
C19_ConcurrentStoresCounted ==
    (\A t \in Tasks : Finished(m0_pc[t]))
        => /\ m0_stats = Cardinality(Returned)
           /\ \A t \in Returned : m0_id[t] # NoMemId

C19_Witness ==
    /\ Returned = Tasks
    /\ m0_stats = MaxTasks

\* C20: when the backend's add fails, the call raises, memories_stored is
\* what it was when the call began and no cache entry has been written.
C20_FailedStoreNoTrace ==
    \A t \in Tasks :
        m0_hist[t].add_failed
            => /\ m0_pc[t] = "raised"
               /\ m0_hist[t].stats_after = m0_hist[t].stats_before
               /\ m0_hist[t].cache_after = m0_hist[t].cache_before

C20_Witness ==
    \E t, u \in Tasks :
        /\ m0_hist[t].add_failed
        /\ m0_pc[t] = "raised"
        /\ m0_hist[t].stats_before > 0
        /\ m0_hist[t].cache_before # {}
        /\ m0_pc[u] = "done"

(***************************************************************************)
(* Owner scope: search_memories of the OptimizedMemoryEngine, and          *)
(* get_memory_by_id, delete_memory and the fallback search of the          *)
(* Mem0MemoryEngine                                                        *)
(***************************************************************************)
MaxScopeStores == 2
MaxSearches == 1

\* query in content, for a query of one word
Matches(query, obj) == InSeq(query, obj.content)

\* "if agent_id and memory_obj.get('agent_id') != agent_id: continue", then the
\* text match ("" stands for None and for the empty string, both false)
Selected(query, agent_id, obj) ==
    /\ (agent_id = "" \/ obj.agent_id = agent_id)
    /\ Matches(query, obj)

search_in_cache(objs, query, agent_id) ==
    SelectSeq(objs, LAMBDA o : Selected(query, agent_id, o))

\* the values of Tier 2 as _search_in_cache sees them, bytes decompressed
L2Objects == [i \in DOMAIN l2_cache |-> decompress_memory(l2_cache[i].data)]

Take(s, n) == SubSeq(s, 1, IF Len(s) < n THEN Len(s) ELSE n)

\* the memory:* keys Redis lists, in any order
KeyOrders ==
    LET live == {id \in DOMAIN redis_mem : RedisHas(redis_mem, id, now)}
    IN  {f \in [1..Cardinality(live) -> live] : \A i, j \in DOMAIN f : i # j => f[i] # f[j]}

\* keys[:limit * 2], each read by _get_from_redis, filtered, cut at limit
search_in_redis(keys, query, agent_id, limit) ==
    LET read == Take(keys, limit * 2)
        objs == [i \in DOMAIN read |-> get_from_redis(read[i], "ok")]
    IN  Take(SelectSeq(objs, LAMBDA o : o # NoObj /\ Selected(query, agent_id, o)), limit)

\* calculate_score: 10 per match, 5 per access, and 100 - age in hours, which
\* among records a few milliseconds old only breaks ties, newest first
calculate_score(obj, query) ==
    (Count(obj.content, query) * 10 + obj.access_count * 5) * (MaxTime + 1) + obj.timestamp

\* sorted(results, key=calculate_score, reverse=True)
rank_search_results(results, query) ==
    SortedBy(results, [i \in DOMAIN results |-> 0 - calculate_score(results[i], query)])

SearchMemories(query, limit, agent_id, keys, outcome) ==
    LET l1_results == search_in_cache(l1_cache, query, agent_id)
        l2_results == IF Len(l1_results) < limit
                      THEN search_in_cache(L2Objects, query, agent_id) ELSE <<>>
        local == l1_results \o l2_results
        asks_redis == Len(local) < limit /\ redis_client
        redis_results == IF asks_redis /\ outcome = "ok"
                         THEN search_in_redis(keys, query, agent_id, limit - Len(local))
                         ELSE <<>>
        ranked == rank_search_results(local \o redis_results, query)
        returned == Take(ranked, limit)
    IN  /\ outcome \in (IF ~asks_redis THEN {"none"}
                        ELSE IF failed_calls < MaxFailedCalls THEN {"ok", "fail"}
                        ELSE {"ok"})
        /\ cache_stats' = [cache_stats EXCEPT !.searches = @ + 1]
        /\ failed_calls' = IF outcome = "fail" THEN failed_calls + 1 ELSE failed_calls
        /\ last_op' = [NoOp EXCEPT
                !.op = "search", !.query = query, !.agent_id = agent_id,
                !.results = [i \in DOMAIN returned |-> update_access_stats(returned[i], now)]]
        /\ only_stores' = FALSE
        /\ store_log' = <<>>
        /\ UNCHANGED <<l1_cache, l2_cache, redis_client, redis_mem, redis_flag, now,
                       access_order, pending>>
        /\ UNCHANGED <<codec_vars, cons_vars, facade_vars, thread_vars>>

\* the Mem0MemoryEngine is not in use
EngineUnderTest == \A t \in Tasks : m0_pc[t] = "idle"

ScopeStore ==
    /\ EngineUnderTest
    /\ cache_stats.stores < MaxScopeStores
    /\ \E in \in StoreInputs, outcome \in {"skip", "ok"} :
           StoreMemory(in.content, in.metadata, in.agent, outcome)

Search ==
    /\ EngineUnderTest
    /\ cache_stats.searches < MaxSearches
    /\ \E query \in {"x", "y"}, limit \in {1, 10}, agent_id \in Agents, keys \in KeyOrders,
          outcome \in {"none", "ok", "fail"} :
           SearchMemories(query, limit, agent_id, keys, outcome)

\* the callers of get_memory_by_id, delete_memory and the search
Users == {TaskUser[t] : t \in Tasks}

\* the ids store_memory has returned
StoredIds == {m0_id[t] : t \in {u \in Tasks : m0_pc[u] = "done"}}

\* what the mem0 backend holds under an id for a user: the memory added
\* under that id by that user, unless deleted (0)
BackendHas(id, user) ==
    /\ id.kind = "mem0"
    /\ id.n \in DOMAIN m0_backend
    /\ m0_backend[id.n] # 0
    /\ TaskUser[m0_backend[id.n]] = user

\* the owner of the value under fallback_memory:{id}, if the key is set
FallbackOwners(id) == IF id \in DOMAIN m0_values THEN {m0_values[id].user_id} ELSE {}

ScopeFrame ==
    /\ m0_running = 0
    /\ UNCHANGED <<m0_search, m0_retrieves>>
    /\ UNCHANGED <<m0_memory, m0_redis, m0_pc, m0_id, m0_tmp, m0_running, m0_stats, m0_hist>>
    /\ UNCHANGED <<engine_vars, codec_vars, cons_vars, um_vars, thread_vars>>

\* get_memory_by_id: the backend's answer, None included; the Redis key
\* fallback_memory:{memory_id} when there is no backend or its call raised
GetMemoryById(id, user, outcome) ==
    LET from_backend == m0_memory /\ outcome = "ok"
        owners == IF from_backend
                  THEN (IF BackendHas(id, user) THEN {user} ELSE {})
                  ELSE IF m0_redis THEN FallbackOwners(id) ELSE {}
    IN  /\ outcome \in (IF m0_memory THEN {"ok", "fail"} ELSE {"none"})
        /\ m0_last' = [op |-> "get", user_id |-> user, id |-> id, owners |-> owners, ids |-> {},
                       ret |-> owners # {}]
        /\ UNCHANGED <<m0_cache, m0_backend, m0_values>>
        /\ ScopeFrame

\* delete_memory: True after the backend's delete; otherwise the Redis key
\* fallback_memory:{memory_id} is deleted and True returned if it was there
DeleteMemory(id, user, outcome) ==
    LET from_backend == m0_memory /\ outcome = "ok"
        owners == IF from_backend
                  THEN (IF BackendHas(id, user) THEN {user} ELSE {})
                  ELSE IF m0_redis THEN FallbackOwners(id) ELSE {}
    IN  /\ outcome \in (IF m0_memory THEN {"ok", "fail"} ELSE {"none"})
        /\ m0_backend' = IF from_backend /\ BackendHas(id, user)
                         THEN [m0_backend EXCEPT ![id.n] = 0] ELSE m0_backend
        /\ m0_cache' = IF ~from_backend /\ m0_redis
                       THEN m0_cache \ {<<"fallback_memory", id>>} ELSE m0_cache
        /\ m0_values' = IF ~from_backend /\ m0_redis
                        THEN [k \in DOMAIN m0_values \ {id} |-> m0_values[k]] ELSE m0_values
        /\ m0_last' = [op |-> "delete", user_id |-> user, id |-> id, owners |-> owners, ids |-> {},
                       ret |-> from_backend \/ owners # {}]
        /\ ScopeFrame

\* _search_fallback_memories("", user_id, None, limit) with limit above the
\* number of keys: every fallback_memory:* value matches
SearchFallbackMemories(user) ==
    LET owners == IF m0_redis THEN UNION {FallbackOwners(id) : id \in DOMAIN m0_values}
                  ELSE {}
    IN  /\ ~m0_memory
        /\ m0_last' = [op |-> "search", user_id |-> user, id |-> NoMemId, owners |-> owners, ids |-> {},
                       ret |-> owners # {}]
        /\ UNCHANGED <<m0_cache, m0_backend, m0_values>>
        /\ ScopeFrame

\* setex(cache_key, 300, ...), scaled down
search_ttl == 2
MaxM0Retrieves == 2

\* memory.search(query, user_id=...): the ids of the user's memories the
\* backend holds
BackendIds(user) ==
    {[kind |-> "mem0", n |-> k] :
        k \in {j \in DOMAIN m0_backend : m0_backend[j] # 0 /\ TaskUser[m0_backend[j]] = user}}

\* retrieve_memories("", user_id, None, limit) with limit above the number of
\* memories: the value under the search:* key if it is set and has not
\* expired; otherwise the backend's search or the fallback search, whose
\* result is put under the key for 300 s. A search that raises returns [].
RetrieveMemories(user, outcome) ==
    LET hit == m0_redis /\ user \in DOMAIN m0_search /\ now < m0_search[user].exp
        memories == IF m0_memory THEN BackendIds(user)
                    ELSE IF m0_redis THEN DOMAIN m0_values ELSE {}
        fails == ~hit /\ outcome = "fail"
        ids == IF hit THEN m0_search[user].ids ELSE IF fails THEN {} ELSE memories
    IN  /\ m0_retrieves < MaxM0Retrieves
        /\ outcome \in (IF ~hit /\ m0_memory THEN {"ok", "fail"} ELSE {"none"})
        /\ m0_search' = IF ~hit /\ ~fails /\ m0_redis
                        THEN SetKey(m0_search, user,
                                    [ids |-> memories, exp |-> now + search_ttl])
                        ELSE m0_search
        /\ m0_retrieves' = m0_retrieves + 1
        /\ m0_last' = [op |-> "retrieve", user_id |-> user, id |-> NoMemId, owners |-> {},
                       ids |-> ids, ret |-> ids # {}]
        /\ m0_running = 0
        /\ UNCHANGED <<m0_memory, m0_redis, m0_pc, m0_id, m0_tmp, m0_running, m0_stats,
                       m0_hist, m0_cache, m0_backend, m0_values>>
        /\ UNCHANGED <<engine_vars, codec_vars, cons_vars, um_vars, thread_vars>>

ScopeInit ==
    /\ EngineInit
    /\ CodecIdle
    /\ ConsIdle
    /\ UMIdle
    /\ \/ M0Idle
       \/ \E memory \in BOOLEAN, redis \in BOOLEAN : M0Engine(memory, redis, "start")

ScopeNext ==
    \/ ScopeStore
    \/ Search
    \/ \E t \in Tasks, outcome \in AddOutcomes, redis_ok \in BOOLEAN :
           M0Add(t, outcome, redis_ok)
    \/ \E t \in Tasks, redis_ok \in BOOLEAN : M0Cache(t, redis_ok)
    \/ \E t \in Tasks : M0Load(t)
    \/ \E t \in Tasks : M0Count(t)
    \/ \E id \in StoredIds, user \in Users, outcome \in {"none", "ok", "fail"} :
           GetMemoryById(id, user, outcome)
    \/ \E id \in StoredIds, user \in Users, outcome \in {"none", "ok", "fail"} :
           DeleteMemory(id, user, outcome)
    \/ \E user \in Users : SearchFallbackMemories(user)
    \/ Tick

SpecScope == ScopeInit /\ [][ScopeNext]_vars

\* store_memory, delete_memory and retrieve_memories of one Mem0MemoryEngine
SearchCacheInit ==
    /\ EngineInit
    /\ CodecIdle
    /\ ConsIdle
    /\ UMIdle
    /\ \E memory \in BOOLEAN, redis \in BOOLEAN : M0Engine(memory, redis, "start")

\* no store_memory coroutine is between its start and its end: the calls of
\* this specification are made one after the other
Quiescent == \A t \in Tasks : m0_pc[t] \in {"start", "done", "raised"}

\* the store_memory calls made: one by each user
MaxCacheStores == 2

CacheStore ==
    /\ Quiescent
    /\ \E t \in 1..MaxCacheStores, outcome \in AddOutcomes, redis_ok \in BOOLEAN :
           M0Add(t, outcome, redis_ok)

CacheDelete ==
    /\ Quiescent
    /\ \E id \in StoredIds, user \in Users, outcome \in {"none", "ok", "fail"} :
           DeleteMemory(id, user, outcome)

CacheRetrieve ==
    /\ Quiescent
    /\ \E user \in Users, outcome \in {"none", "ok", "fail"} :
           RetrieveMemories(user, outcome)

CacheTick == Quiescent /\ Tick

SearchCacheNext ==
    \/ CacheStore
    \/ \E t \in Tasks, redis_ok \in BOOLEAN : M0Cache(t, redis_ok)
    \/ \E t \in Tasks : M0Load(t)
    \/ \E t \in Tasks : M0Count(t)
    \/ CacheDelete
    \/ CacheRetrieve
    \/ CacheTick

SpecSearchCache == SearchCacheInit /\ [][SearchCacheNext]_vars

\* C21 as stated: search_memories(query, agent_id=B) returns only records
\* whose agent_id is B, and get_memory_by_id, delete_memory and the fallback
\* search called with user_id=B return or delete only records stored by B.
C21_OwnerScopeIsolation ==
    /\ (last_op.op = "search" /\ last_op.agent_id # "")
          => \A i \in DOMAIN last_op.results :
                 last_op.results[i].agent_id = last_op.agent_id
    /\ m0_last.op \in {"get", "delete", "search"}
          => m0_last.owners \subseteq {m0_last.user_id}

(***************************************************************************)
(* The methods of the OptimizedMemoryEngine step by step, called from      *)
(* several threads: the request threads and the two background loops       *)
(***************************************************************************)
MaxThreadCalls == 3

I(k) == [k |-> k, tier |-> "none"]
On(k, tier) == [k |-> k, tier |-> tier]

\* _store_in_l1_cache: with self.cache_lock
store_in_l1_cache_prog == <<I("acquire"), I("l1_store"), I("release")>>

\* _store_in_cache: with self.cache_lock, Tier 1 (the lock taken again), Tier 2
store_in_cache_prog ==
    <<I("acquire")>> \o store_in_l1_cache_prog \o <<I("l2_store"), I("release")>>

\* mutant: the Redis write inside the locked block of _store_in_cache
store_memory_prog_redis_locked ==
    <<I("acquire")>> \o store_in_l1_cache_prog \o <<I("l2_store")>>
        \o (IF redis_client THEN <<I("redis_store")>> ELSE <<>>) \o <<I("release"), I("return")>>

\* store_memory: _store_in_cache, then _store_in_redis if there is a client
store_memory_prog ==
    store_in_cache_prog \o (IF redis_client THEN <<I("redis_store")>> ELSE <<>>)
        \o <<I("return")>>

\* retrieve_memory starts with _get_from_l1_cache; what follows depends on the hit
retrieve_memory_prog == <<I("acquire"), I("l1_get")>>

\* search_memories: _search_in_cache on Tier 1 and Tier 2 (limit above the
\* number of records), then _search_in_redis if there is a client
search_memories_prog ==
    <<On("iter_open", "l1"), On("iter_next", "l1"), On("iter_open", "l2"), On("iter_next", "l2")>>
        \o (IF redis_client THEN <<I("redis_search")>> ELSE <<>>) \o <<I("return")>>

\* _get_all_memories, the scan of consolidate_memories
get_all_memories_prog ==
    <<I("acquire"), I("l1_scan"), I("release")>>
        \o (IF redis_client THEN <<I("redis_scan")>> ELSE <<>>) \o <<I("return")>>

\* _remove_memory
remove_memory_prog ==
    <<I("acquire"), I("l1_pop"), I("l2_pop"), I("release")>>
        \o (IF redis_client THEN <<I("redis_delete")>> ELSE <<>>) \o <<I("return")>>

routine_cleanup_prog == <<I("acquire"), I("l2_routine"), I("release"), I("return")>>

aggressive_cleanup_prog ==
    <<I("acquire"), I("l1_aggressive"), I("release"),
      I("acquire"), I("l2_aggressive"), I("release"), I("return")>>

\* _optimize_l1_cache; the _cleanup_redis_expired that follows it in the loop
\* makes no Redis call
optimize_l1_cache_prog == <<I("acquire"), I("l1_optimize"), I("release"), I("return")>>

TierSteps == {"l1_store", "l2_store", "l1_get", "l2_get", "l1_scan", "l1_pop", "l2_pop",
              "l2_routine", "l1_aggressive", "l2_aggressive", "l1_optimize"}
IterSteps == {"iter_open", "iter_next"}
RedisSteps == {"redis_store", "redis_store_flag", "redis_get", "redis_get_data",
              "redis_search", "redis_scan", "redis_delete"}

\* the step thread t is at
At(t) == IF th_prog[t] = <<>> THEN I("idle") ELSE Head(th_prog[t])

IdSeq(seq) == [i \in DOMAIN seq |-> seq[i].id]

\* what a change of the tiers does to the open iterator of another thread: an
\* OrderedDict iterator remembers that the dict was restructured, a dict
\* iterator keeps its place among the entries that are left; and which records
\* of a running search are still resident
Observe(c, l1n, l2n, rebuilt) ==
    LET it == c.it
        it2 == IF it.tier = "l1"
               THEN [it EXCEPT !.dirty = @ \/ IdSeq(l1n) # IdSeq(l1_cache)
                                           \/ (rebuilt /\ l1_cache # <<>>)]
               ELSE IF it.tier = "l2"
               THEN [it EXCEPT !.pos = Cardinality({i \in 1..it.pos :
                                                        l2_cache[i].id \in Ids(l2n)})]
               ELSE it
    IN  [c EXCEPT !.it = it2, !.res1 = @ \cap Ids(l1n), !.res2 = @ \cap Ids(l2n)]

ThreadFrame ==
    /\ UNCHANGED <<redis_client, now, access_order, store_log, only_stores, pending, last_op>>
    /\ UNCHANGED <<codec_vars, cons_vars, facade_vars>>

\* the inputs of the calls
ThreadInputs ==
    {[content |-> <<"x">>, metadata |-> MetaNone, agent |-> "a1"],
     [content |-> <<"x", "y", "z">>, metadata |-> MetaNone, agent |-> "a1"]}

Calls ==
    {[NoThreadCall EXCEPT !.op = "store",
                          !.obj = MemoryObj(in.content, in.metadata, in.agent, now)] :
         in \in ThreadInputs}
    \cup {[NoThreadCall EXCEPT !.op = "retrieve", !.id = id] : id \in RetrieveIds}
    \cup {[NoThreadCall EXCEPT !.op = "remove", !.id = id] :
              id \in Ids(l1_cache) \cup Ids(l2_cache)}
    \cup {[NoThreadCall EXCEPT !.op = "search", !.query = "x", !.agent_id = "a1",
                               !.res1 = {o.id : o \in {p \in SeqToSet(l1_cache) :
                                                          Selected("x", "a1", p)}},
                               !.res2 = {o.id : o \in {p \in SeqToSet(L2Objects) :
                                                          Selected("x", "a1", p)}}]}
    \cup {[NoThreadCall EXCEPT !.op = op, !.agent_id = "a1"] : op \in {"get_all"}}
    \cup {[NoThreadCall EXCEPT !.op = op] : op \in {"routine", "aggressive", "optimize"}}

Program(op) ==
    CASE op = "store" -> store_memory_prog
      [] op = "retrieve" -> retrieve_memory_prog
      [] op = "search" -> search_memories_prog
      [] op = "get_all" -> get_all_memories_prog
      [] op = "remove" -> remove_memory_prog
      [] op = "routine" -> routine_cleanup_prog
      [] op = "aggressive" -> aggressive_cleanup_prog
      [] op = "optimize" -> optimize_l1_cache_prog

\* the method and the record id of a call
Mark(c) == [op |-> c.op, id |-> IF c.op = "store" THEN c.obj.id ELSE c.id]

\* a thread enters a method; beside notes the calls that run while it runs
BeginCall(t) ==
    /\ th_prog[t] = <<>>
    /\ th_count < MaxThreadCalls
    /\ \E c \in Calls :
           /\ th_call' =
                  [u \in Threads |->
                      IF u = t
                      THEN [c EXCEPT !.status = "running",
                                     !.beside = {Mark(th_call[v]) :
                                                    v \in {w \in Threads : th_prog[w] # <<>>}}]
                      ELSE IF th_prog[u] # <<>>
                      THEN [th_call[u] EXCEPT !.beside = @ \cup {Mark(c)}]
                      ELSE th_call[u]]
           /\ th_prog' = [th_prog EXCEPT ![t] = Program(c.op)]
    /\ th_count' = th_count + 1
    /\ UNCHANGED <<l1_cache, l2_cache, redis_mem, redis_flag, cache_stats, failed_calls,
                   lock_owner, lock_depth>>
    /\ ThreadFrame

\* with self.cache_lock: entry (the owner of an RLock may enter again)
Acquire(t) ==
    /\ At(t).k = "acquire"
    /\ lock_owner \in {0, t}
    /\ lock_owner' = t
    /\ lock_depth' = lock_depth + 1
    /\ th_prog' = [th_prog EXCEPT ![t] = Tail(@)]
    /\ UNCHANGED <<l1_cache, l2_cache, redis_mem, redis_flag, cache_stats, failed_calls,
                   th_call, th_count>>
    /\ ThreadFrame

\* with self.cache_lock: exit
Release(t) ==
    /\ At(t).k = "release"
    /\ lock_depth' = lock_depth - 1
    /\ lock_owner' = IF lock_depth = 1 THEN 0 ELSE lock_owner
    /\ th_prog' = [th_prog EXCEPT ![t] = Tail(@)]
    /\ UNCHANGED <<l1_cache, l2_cache, redis_mem, redis_flag, cache_stats, failed_calls,
                   th_call, th_count>>
    /\ ThreadFrame

\* a step on l1_cache or l2_cache inside a locked block; the two get steps
\* decide how retrieve_memory goes on
TierStep(t) ==
    LET k == At(t).k
        c == th_call[t]
        l1hit == c.id \in Ids(l1_cache)
        l2hit == L2Hit(c.id)
        l1n == CASE k = "l1_store" -> store_in_l1_cache(l1_cache, c.obj)
                 [] k = "l1_get" /\ l1hit -> MoveToEnd(l1_cache, c.id)
                 [] k = "l1_pop" -> Without(l1_cache, c.id)
                 [] k = "l1_aggressive" -> aggressive_l1(l1_cache)
                 [] k = "l1_optimize" -> optimize_l1_cache(l1_cache)
                 [] OTHER -> l1_cache
        l2n == CASE k = "l2_store" -> SetL2(l2_cache, c.obj.id, compress_memory(c.obj))
                 [] k = "l2_pop" -> Without(l2_cache, c.id)
                 [] k = "l2_routine" -> routine_l2(l2_cache)
                 [] k = "l2_aggressive" -> aggressive_l2(l2_cache)
                 [] OTHER -> l2_cache
        mine == CASE k = "l1_get" /\ l1hit ->
                         [c EXCEPT !.tier = "l1", !.obj = Lookup(l1_cache, c.id)]
                  [] k = "l2_get" /\ l2hit ->
                         [c EXCEPT !.tier = "l2",
                                   !.obj = decompress_memory(Lookup(l2_cache, c.id).data)]
                  [] k = "l1_scan" ->
                         [c EXCEPT !.results =
                              SelectSeq(l1_cache, LAMBDA o : c.agent_id = ""
                                                                \/ o.agent_id = c.agent_id)]
                  [] OTHER -> c
        next == CASE k = "l1_get" ->
                         <<I("release")>> \o (IF l1hit THEN <<I("return")>>
                                               ELSE <<I("acquire"), I("l2_get")>>)
                  [] k = "l2_get" ->
                         <<I("release")>>
                             \o (IF l2hit THEN store_in_l1_cache_prog
                                 ELSE IF redis_client THEN <<I("redis_get")>> ELSE <<>>)
                             \o <<I("return")>>
                  [] OTHER -> Tail(th_prog[t])
    IN  /\ k \in TierSteps
        /\ l1_cache' = l1n
        /\ l2_cache' = l2n
        /\ th_call' = [u \in Threads |->
                          IF u = t THEN mine
                          ELSE Observe(th_call[u], l1n, l2n, k = "l1_optimize")]
        /\ th_prog' = [th_prog EXCEPT ![t] = next]
        /\ UNCHANGED <<redis_mem, redis_flag, cache_stats, failed_calls,
                       lock_owner, lock_depth, th_count>>
        /\ ThreadFrame

\* "for memory_obj in cache.values()" of _search_in_cache, one next() a step.
\* An OrderedDict iterator that has a key left raises RuntimeError when the
\* dict was restructured or resized since it was opened; a dict iterator
\* raises when the size differs. search_memories logs it and returns [].
IterStep(t) ==
    LET ins == At(t)
        c == th_call[t]
        it == c.it
        objs == IF ins.tier = "l1" THEN l1_cache ELSE L2Objects
        raises == IF ins.tier = "l1"
                  THEN it.pos < it.n0 /\ (it.dirty \/ Len(l1_cache) # it.n0)
                  ELSE Len(l2_cache) # it.n0
        exhausted == IF ins.tier = "l1" THEN it.pos >= it.n0 ELSE it.pos >= Len(l2_cache)
        el == objs[it.pos + 1]
    IN  /\ ins.k \in IterSteps
        /\ IF ins.k = "iter_open"
           THEN /\ th_call' = [th_call EXCEPT ![t].it =
                                  [tier |-> ins.tier, pos |-> 0, n0 |-> Len(objs),
                                   dirty |-> FALSE]]
                /\ th_prog' = [th_prog EXCEPT ![t] = Tail(@)]
           ELSE IF raises
           THEN /\ th_call' = [th_call EXCEPT ![t] =
                                  [c EXCEPT !.status = "failed", !.results = <<>>,
                                            !.it = NoIter]]
                /\ th_prog' = [th_prog EXCEPT ![t] = <<I("return")>>]
           ELSE IF exhausted
           THEN /\ th_call' = [th_call EXCEPT ![t].it = NoIter]
                /\ th_prog' = [th_prog EXCEPT ![t] = Tail(@)]
           ELSE /\ th_call' = [th_call EXCEPT ![t] =
                                  [c EXCEPT !.it.pos = @ + 1,
                                            !.results = IF Selected(c.query, c.agent_id, el)
                                                        THEN Append(@, el) ELSE @]]
                /\ UNCHANGED th_prog
        /\ UNCHANGED <<l1_cache, l2_cache, redis_mem, redis_flag, cache_stats, failed_calls,
                       lock_owner, lock_depth, th_count>>
        /\ ThreadFrame

\* limit: int = 10
search_limit == 10

\* a call to Redis. _store_in_redis: setex memory:{id} (redis_store), then
\* setex compressed:{id} for a compressed payload (redis_store_flag); a setex
\* that raises ends the method. _get_from_redis: get compressed:{id}
\* (redis_get), then get memory:{id} and the decoding by the flag that was
\* read (redis_get_data). keys and the gets of _search_in_redis and of
\* _get_all_memories; the deletes of _remove_memory
RedisCall(t) ==
    LET k == At(t).k
        c == th_call[t]
        data == compress_memory(c.obj)
        exp == now + cache_ttl_seconds
        got == IF RedisHas(redis_mem, c.id, now)
                  /\ c.is_compressed = redis_mem[c.id].data.z
               THEN json_loads(redis_mem[c.id].data.body) ELSE NoObj
        scanned(keys) ==
            SelectSeq([i \in DOMAIN keys |-> get_from_redis(keys[i], "ok")],
                      LAMBDA o : /\ o # NoObj
                                 /\ (c.agent_id = "" \/ o.agent_id = c.agent_id)
                                 /\ o.id \notin Ids(c.results))
    IN  /\ k \in RedisSteps
        /\ \/ /\ k = "redis_store"
              /\ \E ok \in {TRUE} \cup {FALSE : x \in 1..(MaxFailedCalls - failed_calls)} :
                     /\ redis_mem' = IF ok THEN SetKey(redis_mem, c.obj.id,
                                                      [data |-> data, exp |-> exp])
                                     ELSE redis_mem
                     /\ failed_calls' = IF ok THEN failed_calls ELSE failed_calls + 1
                     /\ th_prog' = [th_prog EXCEPT ![t] =
                                       (IF ok /\ data.z THEN <<I("redis_store_flag")>>
                                        ELSE <<>>) \o Tail(@)]
              /\ UNCHANGED <<redis_flag, th_call>>
           \/ /\ k = "redis_store_flag"
              /\ \E ok \in {TRUE} \cup {FALSE : x \in 1..(MaxFailedCalls - failed_calls)} :
                     /\ redis_flag' = IF ok THEN SetKey(redis_flag, c.obj.id, [exp |-> exp])
                                      ELSE redis_flag
                     /\ failed_calls' = IF ok THEN failed_calls ELSE failed_calls + 1
              /\ th_prog' = [th_prog EXCEPT ![t] = Tail(@)]
              /\ UNCHANGED <<redis_mem, th_call>>
           \/ /\ k = "redis_get"
              /\ th_call' = [th_call EXCEPT ![t].is_compressed =
                                RedisHas(redis_flag, c.id, now)]
              /\ th_prog' = [th_prog EXCEPT ![t] = <<I("redis_get_data")>> \o Tail(@)]
              /\ UNCHANGED <<redis_mem, redis_flag, failed_calls>>
           \/ /\ k = "redis_get_data"
              /\ th_call' = [th_call EXCEPT ![t] =
                                IF got = NoObj THEN c
                                ELSE [c EXCEPT !.tier = "redis", !.obj = got]]
              /\ th_prog' = [th_prog EXCEPT ![t] =
                                (IF got = NoObj THEN <<>> ELSE store_in_cache_prog)
                                    \o <<I("return")>>]
              /\ UNCHANGED <<redis_mem, redis_flag, failed_calls>>
           \/ /\ k = "redis_search"
              /\ \E keys \in KeyOrders :
                     th_call' = [th_call EXCEPT ![t].results =
                                    @ \o search_in_redis(keys, c.query, c.agent_id,
                                                         search_limit - Len(@))]
              /\ th_prog' = [th_prog EXCEPT ![t] = Tail(@)]
              /\ UNCHANGED <<redis_mem, redis_flag, failed_calls>>
           \/ /\ k = "redis_scan"
              /\ \E keys \in KeyOrders :
                     th_call' = [th_call EXCEPT ![t].results = @ \o scanned(keys)]
              /\ th_prog' = [th_prog EXCEPT ![t] = Tail(@)]
              /\ UNCHANGED <<redis_mem, redis_flag, failed_calls>>
           \/ /\ k = "redis_delete"
              /\ redis_mem' = [id \in DOMAIN redis_mem \ {c.id} |-> redis_mem[id]]
              /\ redis_flag' = [id \in DOMAIN redis_flag \ {c.id} |-> redis_flag[id]]
              /\ th_prog' = [th_prog EXCEPT ![t] = Tail(@)]
              /\ UNCHANGED <<th_call, failed_calls>>
        /\ UNCHANGED <<l1_cache, l2_cache, cache_stats, lock_owner, lock_depth, th_count>>
        /\ ThreadFrame

\* the end of the method: the statistics, the ranking of search_memories, and
\* the _update_access_stats of retrieve_memory, which after a Tier 2 or Redis
\* hit updates the object that was put in Tier 1
Return(t) ==
    LET c == th_call[t]
        promoted == c.op = "retrieve" /\ c.tier \in {"l2", "redis"}
        ranked == Take(rank_search_results(c.results, c.query), search_limit)
        counter == CASE c.op = "store" -> "stores"
                     [] c.op = "retrieve" -> HitCounter(c.tier)
                     [] c.op = "search" /\ c.status = "running" -> "searches"
                     [] OTHER -> "none"
    IN  /\ At(t).k = "return"
        /\ l1_cache' = IF promoted
                       THEN [i \in DOMAIN l1_cache |->
                                IF l1_cache[i] = c.obj THEN update_access_stats(c.obj, now)
                                ELSE l1_cache[i]]
                       ELSE l1_cache
        /\ cache_stats' = IF counter = "none" THEN cache_stats
                          ELSE [cache_stats EXCEPT ![counter] = @ + 1]
        /\ th_call' = [th_call EXCEPT ![t] =
              CASE c.status = "failed" -> c
                [] c.op = "search" ->
                       [c EXCEPT !.status = "returned",
                                 !.results = [i \in DOMAIN ranked |->
                                                 update_access_stats(ranked[i], now)]]
                [] c.op = "retrieve" /\ c.tier # "none" ->
                       [c EXCEPT !.status = "returned", !.obj = update_access_stats(@, now)]
                [] OTHER -> [c EXCEPT !.status = "returned"]]
        /\ th_prog' = [th_prog EXCEPT ![t] = <<>>]
        /\ UNCHANGED <<l2_cache, redis_mem, redis_flag, failed_calls,
                       lock_owner, lock_depth, th_count>>
        /\ ThreadFrame

ThreadsInit == EngineInit /\ CodecIdle /\ ConsIdle /\ FacadeIdle

ThreadsNext ==
    \E t \in Threads :
        \/ BeginCall(t)
        \/ Acquire(t)
        \/ Release(t)
        \/ TierStep(t)
        \/ IterStep(t)
        \/ RedisCall(t)
        \/ Return(t)

SpecThreads == ThreadsInit /\ [][ThreadsNext]_vars

\* C23: no thread is in a Redis call while it holds cache_lock.
C23_NoLockAcrossRedis ==
    \A t \in Threads : At(t).k \in RedisSteps => lock_owner # t

C23_Witness ==
    \E t, u \in Threads :
        /\ At(t).k \in RedisSteps
        /\ th_call[t].op \in {"store", "retrieve", "remove"}
        /\ lock_owner = u
        /\ u # t

\* C24 as stated: every step that reads or changes l1_cache or l2_cache is
\* taken by the thread that holds cache_lock, and a search_memories that ran
\* beside other calls has not failed and returns every matching record that
\* was in a tier from its start to its end.
C24_TiersUnderLock ==
    \A t \in Threads :
        /\ At(t).k \in TierSteps \cup IterSteps => lock_owner = t
        /\ (th_call[t].op = "search" /\ th_call[t].status \in {"returned", "failed"})
              => /\ th_call[t].status = "returned"
                 /\ th_call[t].res1 \cup th_call[t].res2 \subseteq Ids(th_call[t].results)

(***************************************************************************)
(* The tiered cache, with the round trip and the consolidation at rest     *)
(***************************************************************************)
Init == EngineInit /\ CodecIdle /\ ConsIdle /\ FacadeIdle

Next ==
    \/ Tick
    \/ Store
    \/ Retrieve
    \/ OptimizeL1Cache
    \/ AggressiveCleanup
    \/ RoutineCleanup
    \/ GetMemoryStats

Spec == Init /\ [][Next]_vars

(***************************************************************************)
(* Claims about the tiered cache, checked under Spec                       *)
(***************************************************************************)
\* the fields of a record that are not access statistics
SameRecord(a, b) ==
    /\ a.id = b.id
    /\ a.content = b.content
    /\ a.metadata = b.metadata
    /\ a.agent_id = b.agent_id
    /\ a.timestamp = b.timestamp

\* C1: read-your-writes. When the observed caller retrieves the id its last
\* store_memory returned, with only store_memory and retrieve_memory calls of
\* other callers in between, it gets a record with the id, content, metadata,
\* agent_id and timestamp it stored.
C1_ReadYourWrites ==
    (last_op.op = "retrieve" /\ last_op.expected # NoObj)
        => (last_op.found /\ SameRecord(last_op.ret, last_op.expected))

\* C2: Tier 1 never holds more than config.local_cache_size entries.
C2_L1CapacityBound == Len(l1_cache) <= local_cache_size

\* C2 witness: a promotion from the durable tier into a full Tier 1 evicted an
\* entry and left Tier 1 full.
C2_Witness ==
    /\ last_op.op = "retrieve"
    /\ last_op.tier = "redis"
    /\ last_op.evicted # NoId
    /\ Len(l1_cache) = local_cache_size

\* C3: whenever an insertion into a full Tier 1 evicts an entry, the evicted
\* entry is the least recently accessed one of Tier 1.
C3_LRUEviction == (last_op.evicted # NoId) => (last_op.evicted = last_op.lru)

\* the contents of the records of store_log are pairwise distinct
DistinctContents ==
    \A i, j \in 1..Len(store_log) : i # j => store_log[i].ch # store_log[j].ch

\* C4: after n > N1 stores of pairwise distinct content and nothing else, Tier 1
\* holds exactly the N1 most recently stored records, and the n - N1 earliest
\* are absent from Tier 1 and present in Tier 2.
C4_Overflow ==
    (only_stores /\ DistinctContents /\ Len(store_log) > local_cache_size)
        => LET n == Len(store_log)
           IN  /\ Len(l1_cache) = local_cache_size
               /\ \A k \in 1..local_cache_size :
                      l1_cache[k].id = store_log[n - local_cache_size + k]
               /\ \A i \in 1..(n - local_cache_size) :
                      /\ store_log[i] \notin Ids(l1_cache)
                      /\ store_log[i] \in Ids(l2_cache)

C4_Witness ==
    /\ only_stores
    /\ DistinctContents
    /\ Len(store_log) = local_cache_size + 1
    /\ Len(l1_cache) = local_cache_size
    /\ store_log[1] \notin Ids(l1_cache)

\* C5: with the Redis client missing or every Redis call failing, store_memory
\* returns an id without raising, and a retrieve_memory of that id right after
\* returns the stored record from Tier 1 or Tier 2.
C5_DegradedOperation ==
    /\ (last_op.op = "store" /\ last_op.degraded) => (last_op.found /\ ~last_op.raised)
    /\ (last_op.op = "retrieve" /\ last_op.prev # NoObj /\ last_op.degraded)
           => /\ last_op.found
              /\ last_op.tier \in {"l1", "l2"}
              /\ SameRecord(last_op.ret, last_op.prev)

\* C5 witness: the store's Redis call failed and the retrieve after it was served
C5_Witness ==
    /\ redis_client
    /\ failed_calls > 0
    /\ last_op.op = "retrieve"
    /\ last_op.prev # NoObj
    /\ last_op.degraded
    /\ last_op.found

\* C6: get_memory_stats() reports a failure count equal to the number of Redis
\* calls that have failed so far.
C6_FailuresCounted ==
    (last_op.op = "stats") => (last_op.failures_reported = failed_calls)

IsSuffix(suffix, seq) ==
    /\ Len(suffix) <= Len(seq)
    /\ suffix = SubSeq(seq, Len(seq) - Len(suffix) + 1, Len(seq))

C14_IdsNeverReused ==
    /\ \A i, j \in DOMAIN store_log : i # j => store_log[i] # store_log[j]
    /\ only_stores => Cardinality(Ids(l2_cache)) = Len(store_log)

\* the step is a retrieve_memory(id) call that returned
RetrieveCall(id) ==
    /\ last_op'.op = "retrieve"
    /\ last_op'.id = id
    /\ now' = now
    /\ cache_stats' # cache_stats

Counters == {"l1_hits", "l2_hits", "redis_hits", "misses"}

\* no tier has the record for a reader: not Tier 1, not Tier 2, not Redis
MissesAll(id) ==
    /\ id \notin Ids(l1_cache)
    /\ ~L2Hit(id)
    /\ ~(redis_client /\ RedisHas(redis_mem, id, now))

\* C22: every retrieve_memory call increments exactly one of l1_hits, l2_hits,
\* redis_hits and misses by one; a read that misses all tiers returns None,
\* counts one miss and leaves Tier 1, Tier 2 and Redis as they were.
C22_HitMissAccounting ==
    [][\A id \in RetrieveIds :
          RetrieveCall(id)
              => /\ \E c \in Counters :
                       /\ cache_stats'[c] = cache_stats[c] + 1
                       /\ \A d \in Counters \ {c} : cache_stats'[d] = cache_stats[d]
                 /\ MissesAll(id)
                       => /\ ~last_op'.found
                          /\ last_op'.ret = NoObj
                          /\ cache_stats'.misses = cache_stats.misses + 1
                          /\ l1_cache' = l1_cache
                          /\ l2_cache' = l2_cache
                          /\ redis_mem' = redis_mem
                          /\ redis_flag' = redis_flag]_vars

\* a miss of all tiers while both local tiers and Redis hold other records
C22_Witness ==
    /\ last_op.op = "retrieve"
    /\ ~last_op.found
    /\ cache_stats.misses = 1
    /\ Len(l1_cache) = local_cache_size
    /\ l2_cache # <<>>
    /\ redis_client

\* C26: after a retrieve_memory served by Tier 2 the record is the last (most
\* recently used) entry of Tier 1; after one served by Redis the record is in
\* Tier 1 and in Tier 2.
C26_PromotionOnRead ==
    /\ (last_op.op = "retrieve" /\ last_op.tier = "l2")
          => /\ l1_cache # <<>>
             /\ l1_cache[Len(l1_cache)].id = last_op.id
    /\ (last_op.op = "retrieve" /\ last_op.tier = "redis")
          => /\ l1_cache # <<>>
             /\ l1_cache[Len(l1_cache)].id = last_op.id
             /\ last_op.id \in Ids(l2_cache)

\* a Tier 2 hit promoted into a full Tier 1
C26_Witness ==
    /\ last_op.op = "retrieve"
    /\ last_op.tier = "l2"
    /\ last_op.evicted # NoId
    /\ last_op.evicted # last_op.id

\* C27 as stated: a successful retrieve_memory adds one to the access_count
\* of the stored record; the first retrieve of an id returns 1 and the copy
\* Tier 1 holds then says 1 as well.
C27_AccessCountStored ==
    (last_op.op = "retrieve" /\ last_op.found)
        => /\ last_op.ret.access_count = 1
           /\ last_op.id \in Ids(l1_cache)
           /\ Lookup(l1_cache, last_op.id).access_count = last_op.ret.access_count

JanitorOps == {"optimize", "aggressive", "routine"}

\* C25 as stated: the janitor passes and the eviction inside a store or a
\* retrieve change no Redis key (a store writes the keys of its own id only);
\* and a record this engine stored, gone from Tier 1 and Tier 2, is returned
\* from Redis by retrieve_memory when its memory:{id} key has not expired and
\* the Redis calls succeed.
C25_EvictionTierLocal ==
    [][/\ last_op'.op \in JanitorOps => (redis_mem' = redis_mem /\ redis_flag' = redis_flag)
       /\ last_op'.op = "retrieve" => (redis_mem' = redis_mem /\ redis_flag' = redis_flag)
       /\ \A id \in DOMAIN redis_mem :
             (last_op'.op = "store" /\ last_op'.id # id)
                 => /\ id \in DOMAIN redis_mem' /\ redis_mem'[id] = redis_mem[id]
                    /\ (id \in DOMAIN redis_flag
                           => id \in DOMAIN redis_flag' /\ redis_flag'[id] = redis_flag[id])
       /\ \A id \in DOMAIN redis_mem \ {PriorObj.id} :
             (/\ RetrieveCall(id)
              /\ id \notin Ids(l1_cache) \cup Ids(l2_cache)
              /\ redis_client
              /\ RedisHas(redis_mem, id, now)
              /\ failed_calls' = failed_calls)
                 => /\ last_op'.tier = "redis"
                    /\ last_op'.ret.content = redis_mem[id].data.body.json.content]_vars

\* C31 as stated: a cleanup tick of the janitor, routine or under memory
\* pressure, leaves no entry in Tier 2 whose age exceeds cache_ttl_seconds.
C31_ExpiredRemovedByCleanup ==
    last_op.op \in {"routine", "aggressive"}
        => \A i \in DOMAIN l2_cache : ~Expired(l2_cache[i])

\* C32 as stated: the list search_memories returns holds every record id at
\* most once, also for a record that is in more than one tier.
C32_SearchNoDuplicates ==
    last_op.op = "search"
        => \A i, j \in DOMAIN last_op.results :
              last_op.results[i].id = last_op.results[j].id => i = j

\* C33 as stated: when _remove_memory(id) and retrieve_memory(id) have run
\* beside each other on two threads (and no store of the id beside either)
\* and both have returned, the id is in neither tier and not in Redis, so a
\* later retrieve_memory(id) returns None.
C33_RemovalNotUndone ==
    \A t, u \in Threads :
        (/\ th_call[t].op = "remove" /\ th_call[t].status = "returned"
         /\ th_call[u].op = "retrieve" /\ th_call[u].status = "returned"
         /\ th_call[u].id = th_call[t].id
         /\ Mark(th_call[u]) \in th_call[t].beside
         /\ [op |-> "store", id |-> th_call[t].id]
                \notin th_call[t].beside \cup th_call[u].beside)
            => /\ th_call[t].id \notin Ids(l1_cache) \cup Ids(l2_cache)
               /\ redis_client => th_call[t].id \notin DOMAIN redis_mem

\* C34 as stated: a _store_in_l1_cache for an id that is already in a full
\* Tier 1 evicts no entry and leaves the size of Tier 1 as it was.
C34_ReinsertDoesNotEvict ==
    [][\A t \in Threads :
          (/\ At(t).k = "l1_store"
           /\ th_prog'[t] # th_prog[t]
           /\ th_call[t].obj.id \in Ids(l1_cache)
           /\ Len(l1_cache) >= local_cache_size)
              => /\ Ids(l1_cache') = Ids(l1_cache)
                 /\ Len(l1_cache') = Len(l1_cache)]_vars

\* C35 as stated: a run of consolidate_framework_memories that raised has
\* stored no semantic memory and has updated no episodic importance.
C35_FailedRunNoPartialEffect ==
    (cons_last.op = "consolidate" /\ cons_last.raised)
        => /\ Len(api_semantic) = cons_last.semantic_before
           /\ Len(api_patches) = cons_last.patches_before
           /\ api_episodic = cons_last.episodic_before

(***************************************************************************)
(* Two runs of consolidate_framework_memories for one framework on the     *)
(* event loop; a run gives way to the other at each of its requests, and   *)
(* the API answers every request with success                              *)
(***************************************************************************)
TaskFrame ==
    /\ UNCHANGED <<cons_runs, cons_adds, cons_last>>
    /\ UNCHANGED <<engine_vars, codec_vars, facade_vars, thread_vars>>

\* steps 1 to 3: the GET of the episodic memories, the patterns and the
\* semantic memories; the importance updates of step 6 are computed from the
\* memories as this GET returned them
TaskGet(r) ==
    /\ cons_task[r].pc = "idle"
    /\ \E episodic_memories \in {get_episodic_memories("200")} :
       \E patterns \in {identify_patterns(episodic_memories)} :
       \E semantic_memories \in {extract_semantic_knowledge(patterns)} :
          cons_task' = [cons_task EXCEPT ![r] =
              IF too_few(episodic_memories)
              THEN [NoTask EXCEPT !.pc = "done",
                                  !.result = ConsolidationResult(episodic_memories,
                                                                 <<>>, <<>>, 0)]
              ELSE [pc |-> "store",
                    semantic_memories |-> semantic_memories,
                    updates |-> importance_updates(episodic_memories, patterns),
                    result |-> ConsolidationResult(episodic_memories, patterns,
                                                   semantic_memories,
                                                   Len(semantic_memories))]]
    /\ UNCHANGED <<api_episodic, api_semantic, api_patches, api_records>>
    /\ TaskFrame

\* step 4: one POST of _store_consolidated_memory
TaskStore(r) ==
    /\ cons_task[r].pc = "store"
    /\ IF cons_task[r].semantic_memories = <<>>
       THEN /\ cons_task' = [cons_task EXCEPT ![r].pc = "patch"]
            /\ UNCHANGED api_semantic
       ELSE /\ api_semantic' = Append(api_semantic, Head(cons_task[r].semantic_memories))
            /\ cons_task' = [cons_task EXCEPT ![r].semantic_memories = Tail(@)]
    /\ UNCHANGED <<api_episodic, api_patches, api_records>>
    /\ TaskFrame

\* step 6: one PATCH of _update_memory_importance_api
TaskPatch(r) ==
    /\ cons_task[r].pc = "patch"
    /\ IF cons_task[r].updates = <<>>
       THEN /\ cons_task' = [cons_task EXCEPT ![r].pc = "record"]
            /\ UNCHANGED <<api_episodic, api_patches>>
       ELSE /\ api_patches' = Append(api_patches, Head(cons_task[r].updates))
            /\ api_episodic' = api_patch(api_episodic, <<Head(cons_task[r].updates)>>)
            /\ cons_task' = [cons_task EXCEPT ![r].updates = Tail(@)]
    /\ UNCHANGED <<api_semantic, api_records>>
    /\ TaskFrame

\* _store_consolidation_record, and the return
TaskRecord(r) ==
    /\ cons_task[r].pc = "record"
    /\ api_records' = Append(api_records, cons_task[r].result)
    /\ cons_task' = [cons_task EXCEPT ![r].pc = "done"]
    /\ UNCHANGED <<api_episodic, api_semantic, api_patches>>
    /\ TaskFrame

OverlapNext ==
    \E r \in ConsTasks :
        \/ TaskGet(r)
        \/ TaskStore(r)
        \/ TaskPatch(r)
        \/ TaskRecord(r)

\* what the API holds when the two runs start: up to MaxBatch records of the
\* pool, or the three records that share "retry_policy"
OverlapInit ==
    /\ ConsInit
    /\ Len(api_episodic) <= MaxBatch + 1

SpecOverlap == OverlapInit /\ [][OverlapNext]_vars

\* the record of the pool with this id, with the importance it starts with
PoolEntry(id) == CHOOSE e \in EpisodicPool : e.id = id

\* the importance of record m after n runs, one after the other, each adding
\* the boost of the patterns and capping at 1.0
RECURSIVE BoostedTimes(_, _, _)
BoostedTimes(m, patterns, n) ==
    IF n = 0 THEN m.importance
    ELSE new_importance([m EXCEPT !.importance = BoostedTimes(m, patterns, n - 1)], patterns)

\* C36 as stated: when the runs over the same framework have all finished,
\* every record they have boosted has the importance that follows from
\* applying the boost of each run one after the other, each time capped at
\* 1.0; no run's write undoes the boost of another.
C36_NoLostImportanceUpdate ==
    (/\ \A r \in ConsTasks : cons_task[r].pc = "done"
     /\ ~too_few(api_episodic))
        => \A i \in DOMAIN api_episodic :
              Supporting(identify_patterns(api_episodic), api_episodic[i].id) # <<>>
                  => api_episodic[i].importance =
                         BoostedTimes(PoolEntry(api_episodic[i].id),
                                      identify_patterns(api_episodic), MaxOverlap)

\* C37 as stated: a retrieve_memory that reads memory:{id} while no Redis call
\* has failed decodes the record whenever the key is there; it never finds
\* the payload of a store in progress and fails to decode it.
C37_DurableWriteAtomic ==
    [][\A t \in Threads :
          (/\ At(t).k = "redis_get_data"
           /\ th_prog'[t] # th_prog[t]
           /\ failed_calls = 0
           /\ RedisHas(redis_mem, th_call[t].id, now))
              => th_call'[t].tier = "redis"]_vars

\* what retrieve_memory(id) returns when its Redis calls succeed: a record or None
WouldReturn(id) == ServingTier(id, "ok") # "none"

\* C38 as stated: a record that retrieve_memory returns and that is not older
\* than cache_ttl_seconds is still returned after the next store, retrieve or
\* janitor pass (none of them a removal), with or without a Redis client.
C38_NoSilentLoss ==
    [][\A o \in SeqToSet(l1_cache) \cup SeqToSet(L2Objects) :
          (/\ o # NoObj
           /\ now' - o.timestamp <= cache_ttl_seconds
           /\ WouldReturn(o.id))
              => WouldReturn(o.id)']_vars

\* C39 as stated: after delete_memory(id, user) has returned True (and the id
\* has not been stored again), a retrieve_memories call for that user returns
\* no record with that id, whether or not its answer comes from a search:* key.
C39_DeletedNotServedFromCache ==
    [][(/\ m0_last.op = "delete"
        /\ m0_last.ret
        /\ m0_last'.op = "retrieve"
        /\ m0_last'.user_id = m0_last.user_id
        /\ ~BackendHas(m0_last.id, m0_last.user_id)
        /\ m0_last.id \notin DOMAIN m0_values)
           => m0_last.id \notin m0_last'.ids]_vars

====
